---- MODULE Spec2Model ----
(***************************************************************************)
(* A model of the Lisp interpreter: the value model (ast.go), the tree-    *)
(* walking evaluator with its builtins (interpreter.go) and the top-level  *)
(* executor (main.go).                                                     *)
(*                                                                         *)
(* A Go Environment is a map, i.e. a reference: the model keeps every      *)
(* environment in `heap` and passes environments around as indices into    *)
(* it, so that a closure's captured environment and the environment a      *)
(* defun writes to are shared exactly as in the program.                   *)
(***************************************************************************)
EXTENDS Integers, Sequences, FiniteSets, TLC

VARIABLES heap, input, results, err, log, steps, suite,
          parseCache, parseCacheLock, stack, ret, arg

vars == <<heap, input, results, err, log, steps, suite,
         parseCache, parseCacheLock, stack, ret, arg>>

(***************************************************************************)
(* Bounds of the model.                                                    *)
(***************************************************************************)
\* number of top-level inputs given to the executor in one session
MaxSteps == 2
\* integer literals used as operands range over 0..MaxInt
MaxInt == 2
\* largest argument given to square
MaxSquare == 4
\* largest argument given to the factorial functions
MaxFact == 5
\* the largest number of arguments given to and / or
MaxArgs == 2
\* the longest literal list
MaxLen == 2

(***************************************************************************)
(* ast.go: the values.  Every value is a record of the same shape; `type`  *)
(* is the Go type, the other fields hold that type's fields (unused ones   *)
(* hold a fixed filler).                                                   *)
(*   LispFloat:    the float64 num/den (den > 0, lowest terms) when str is *)
(*                 "", and a float64 that num/den was rounded to, which is *)
(*                 not num/den itself, when str is "rounded"               *)
(*   LispFunction: str = Name ("" when Name is nil), elems = Params,       *)
(*                 body = <<Body>>, env = index of Env in the heap         *)
(***************************************************************************)
Value(t, s, n, d, es, b, e) ==
    [type |-> t, str |-> s, num |-> n, den |-> d, elems |-> es, body |-> b, env |-> e]

LispAtom(s) == Value("LispAtom", s, 0, 1, <<>>, <<>>, 0)

LispNumber(n) == Value("LispNumber", "", n, 1, <<>>, <<>>, 0)

LispFloat(n, d) == Value("LispFloat", "", n, d, <<>>, <<>>, 0)

\* the LispFloat holding the float64 that n/d was rounded to, for an n/d
\* that float64 does not hold
RoundedFloat(n, d) == Value("LispFloat", "rounded", n, d, <<>>, <<>>, 0)

LispString(s) == Value("LispString", s, 0, 1, <<>>, <<>>, 0)

LispList(es) == Value("LispList", "", 0, 1, es, <<>>, 0)

LispBoolean(b) == Value("LispBoolean", "", IF b THEN 1 ELSE 0, 1, <<>>, <<>>, 0)

LispNil == Value("LispNil", "", 0, 1, <<>>, <<>>, 0)

LispFunction(name, params, fbody, e) ==
    Value("LispFunction", name, 0, 1, params, <<fbody>>, e)

\* the nil LispValue a failing call returns next to its error
GoNil == Value("nil", "", 0, 1, <<>>, <<>>, 0)

(***************************************************************************)
(* Text helpers for String().                                              *)
(***************************************************************************)
Digit(n) == CASE n = 0 -> "0" [] n = 1 -> "1" [] n = 2 -> "2" [] n = 3 -> "3"
              [] n = 4 -> "4" [] n = 5 -> "5" [] n = 6 -> "6" [] n = 7 -> "7"
              [] n = 8 -> "8" [] n = 9 -> "9"

RECURSIVE ItoaNat(_)
ItoaNat(n) == IF n < 10 THEN Digit(n) ELSE ItoaNat(n \div 10) \o Digit(n % 10)

\* strconv.Itoa
Itoa(n) == IF n < 0 THEN "-" \o ItoaNat(-n) ELSE ItoaNat(n)

\* strings.ToUpper on the letters the model's function names use
UpperChar(c) ==
    CASE c = "a" -> "A" [] c = "b" -> "B" [] c = "c" -> "C" [] c = "d" -> "D"
      [] c = "e" -> "E" [] c = "f" -> "F" [] c = "g" -> "G" [] c = "h" -> "H"
      [] c = "i" -> "I" [] c = "j" -> "J" [] c = "k" -> "K" [] c = "l" -> "L"
      [] c = "m" -> "M" [] c = "n" -> "N" [] c = "o" -> "O" [] c = "p" -> "P"
      [] c = "q" -> "Q" [] c = "r" -> "R" [] c = "s" -> "S" [] c = "t" -> "T"
      [] c = "u" -> "U" [] c = "v" -> "V" [] c = "w" -> "W" [] c = "x" -> "X"
      [] c = "y" -> "Y" [] c = "z" -> "Z" [] OTHER -> c

RECURSIVE ToUpper(_)
ToUpper(s) == IF Len(s) = 0 THEN "" ELSE UpperChar(Head(s)) \o ToUpper(Tail(s))

RECURSIVE FracDigits(_, _)
FracDigits(r, d) ==
    IF r = 0 THEN "" ELSE Digit((r * 10) \div d) \o FracDigits((r * 10) % d, d)

\* strconv.FormatFloat(f, 'f', -1, 64) of the float num/den, for the floats
\* with a finite decimal expansion
FormatFloat(n, d) ==
    LET a == IF n < 0 THEN -n ELSE n
        whole == (IF n < 0 THEN "-" ELSE "") \o ItoaNat(a \div d)
    IN  IF a % d = 0 THEN whole ELSE whole \o "." \o FracDigits(a % d, d)

RECURSIVE JoinElems(_, _)
\* ast.go String(): the rendering of a value
String(v) ==
    CASE v.type = "LispAtom" -> v.str
      [] v.type = "LispNumber" -> Itoa(v.num)
      [] v.type = "LispFloat" -> FormatFloat(v.num, v.den)
      [] v.type = "LispString" -> "\"" \o v.str \o "\""
      [] v.type = "LispList" -> "(" \o JoinElems(v.elems, 1) \o ")"
      [] v.type = "LispFunction" ->
            IF v.str # "" THEN ToUpper(v.str) ELSE "FUNCTION"
      [] v.type = "LispBoolean" -> IF v.num = 1 THEN "true" ELSE "false"
      [] v.type = "LispNil" -> "nil"

\* the loop of (*LispList).String(): elements i.. joined by EMPTY_STRING (" ")
JoinElems(es, i) ==
    IF i > Len(es) THEN ""
    ELSE String(es[i]) \o (IF i < Len(es) THEN " " ELSE "") \o JoinElems(es, i + 1)

(***************************************************************************)
(* float64 arithmetic of the builtins.  A float64 is a triple <<n, d, r>>: *)
(* the rational n/d in lowest terms when r is FALSE, and a float64 that    *)
(* n/d was rounded to when r is TRUE.  A float64 holds a rational exactly when *)
(* its denominator is a power of two and its numerator is below 2^53 (the  *)
(* numbers of the model are far below that); every operation returns the   *)
(* float64 nearest to its exact result.  The inputs of the model never     *)
(* give a rounded float64 to a further + - or *, where the exact result of *)
(* the operands' n/d would no longer tell whether the sum is whole.        *)
(***************************************************************************)
RECURSIVE Gcd(_, _)
Gcd(a, b) == IF b = 0 THEN a ELSE Gcd(b, a % b)

Abs(n) == IF n < 0 THEN -n ELSE n

RECURSIVE IsPow2(_)
IsPow2(d) == d = 1 \/ (d % 2 = 0 /\ IsPow2(d \div 2))

\* n/d in lowest terms with a positive denominator
Rat(n, d) ==
    LET g == Gcd(Abs(n), Abs(d))
        sgn == IF d < 0 THEN -1 ELSE 1
    IN  IF n = 0 THEN <<0, 1>> ELSE <<(sgn * n) \div g, (sgn * d) \div g>>

\* the float64 an operation returns whose exact result is q: q when float64
\* holds it and no operand was rounded
Round(q, r) == <<q[1], q[2], r \/ ~IsPow2(q[2])>>

\* float64(v.Value) of a LispNumber, v.Value of a LispFloat
Float64(v) == Round(Rat(v.num, v.den), v.str = "rounded")

RatAdd(p, q) == Round(Rat(p[1] * q[2] + q[1] * p[2], p[2] * q[2]), p[3] \/ q[3])

RatSub(p, q) == Round(Rat(p[1] * q[2] - q[1] * p[2], p[2] * q[2]), p[3] \/ q[3])

RatMul(p, q) == Round(Rat(p[1] * q[1], p[2] * q[2]), p[3] \/ q[3])

RatDiv(p, q) == Round(Rat(p[1] * q[2], p[2] * q[1]), p[3] \/ q[3])

\* a result that is never turned back into a LispNumber
CollapseNever(q) ==
    IF q[3] THEN RoundedFloat(q[1], q[2]) ELSE LispFloat(q[1], q[2])

\* `if float64(int(x)) == x { LispNumber } else { LispFloat }`
Collapse(q) ==
    IF q[2] = 1 THEN LispNumber(q[1])
    ELSE IF q[3] THEN RoundedFloat(q[1], q[2])
    ELSE LispFloat(q[1], q[2])

IsNumeric(v) == v.type \in {"LispNumber", "LispFloat"}

(***************************************************************************)
(* The evaluation state threaded through Eval: the heap of environments    *)
(* and the history of Eval calls.  A result is (value, error) plus that    *)
(* state; err = "" is Go's nil error.                                      *)
(***************************************************************************)
Ok(v, st) == [val |-> v, err |-> "", heap |-> st.heap, log |-> st.log]

Fail(msg, st) == [val |-> GoNil, err |-> msg, heap |-> st.heap, log |-> st.log]

St(r) == [heap |-> r.heap, log |-> r.log]

\* history: one event per Eval call (env, expression, nesting depth, and
\* the contents of env at that moment) ...
EvalEvent(env, expr, d, st) ==
    [kind |-> "eval", env |-> env, expr |-> expr, depth |-> d, from |-> 0,
     snap |-> <<st.heap[env]>>]

\* ... and one per user-function body about to be evaluated: the function,
\* the caller's environment, the new environment, and the contents of the
\* caller's, the captured and the new environment at that moment
BodyEvent(local, fn, d, caller, st) ==
    [kind |-> "body", env |-> local, expr |-> fn, depth |-> d, from |-> caller,
     snap |-> <<st.heap[caller], st.heap[fn.env], st.heap[local]>>]

Logged(st, ev) == [st EXCEPT !.log = Append(@, ev)]

\* make(Environment) followed by the copy loop `for key, value := range src`
CopyEnv(st, src) == [st EXCEPT !.heap = Append(@, st.heap[src])]

\* env[key] = val
SetEnv(st, env, key, val) == [st EXCEPT !.heap[env] = (key :> val) @@ @]

\* (*LispError).Error() of an evaluation error (Line 0, Column 0)
LispError(msg) == "Error at line 0, column 0: " \o msg

(***************************************************************************)
(* interpreter.go: Eval and the builtins.  Each takes the environment (a   *)
(* heap index), the unevaluated argument expressions, the nesting depth d  *)
(* of the Eval call it serves and the evaluation state.                    *)
(***************************************************************************)
RECURSIVE Eval(_, _, _, _)
RECURSIVE ArithLoop(_, _, _, _, _, _, _)
RECURSIVE LetLoop(_, _, _, _, _, _)
RECURSIVE LetLoopParallel(_, _, _, _, _, _, _)
RECURSIVE AndLoop(_, _, _, _, _)
RECURSIVE OrLoop(_, _, _, _, _)
RECURSIVE AppendLoop(_, _, _, _, _, _)
RECURSIVE ConcatLoop(_, _, _, _, _, _)
RECURSIVE ParamLoop(_, _, _, _, _, _, _)

\* builtinPrint: the value of the first argument
builtinPrint(env, args, d, st) ==
    IF Len(args) = 0 THEN Ok(LispString(""), st)
    ELSE LET r == Eval(env, args[1], d + 1, st)
         IN  IF r.err # "" THEN Fail(r.err, St(r)) ELSE Ok(r.val, St(r))

\* the argument loop shared by builtinAdd, builtinSub, builtinMul and
\* builtinDiv (op is "+", "-", "*" or "/"); acc is the float64 accumulator
ArithLoop(op, env, args, i, acc, d, st) ==
    IF i > Len(args) THEN Ok(Collapse(acc), st)
    ELSE LET r == Eval(env, args[i], d + 1, st)
         IN  IF r.err # "" THEN Fail(r.err, St(r))
             ELSE IF ~IsNumeric(r.val)
             THEN Fail(LispError("invalid argument to +: " \o String(r.val)), St(r))
             ELSE IF op = "/" /\ r.val.num = 0 THEN Fail("division by zero", St(r))
             ELSE LET x == Float64(r.val)
                      acc2 == CASE op = "+" -> RatAdd(acc, x)
                                [] op = "-" -> RatSub(acc, x)
                                [] op = "*" -> RatMul(acc, x)
                                [] op = "/" -> RatDiv(acc, x)
                  IN  ArithLoop(op, env, args, i + 1, acc2, d, St(r))

\* a faulty variant: an addition that reports any failure of an argument as
\* its own invalid-argument error
builtinAddMasking(env, args, d, st) ==
    LET r == ArithLoop("+", env, args, 1, <<0, 1, FALSE>>, d, st)
    IN  IF r.err # "" THEN Fail(LispError("invalid argument to +"), St(r)) ELSE r

builtinAdd(env, args, d, st) == ArithLoop("+", env, args, 1, <<0, 1, FALSE>>, d, st)

\* the first argument of builtinSub / builtinDiv starts the accumulator
ArithFirst(op, env, args, d, st) ==
    IF Len(args) < 1 THEN Fail("wrong number of arguments to " \o op, st)
    ELSE LET r == Eval(env, args[1], d + 1, st)
         IN  IF r.err # "" THEN Fail(r.err, St(r))
             ELSE IF ~IsNumeric(r.val)
             THEN Fail(LispError("invalid argument to +: " \o String(r.val)), St(r))
             ELSE ArithLoop(op, env, args, 2, Float64(r.val), d, St(r))

builtinSub(env, args, d, st) == ArithFirst("-", env, args, d, st)

builtinMul(env, args, d, st) == ArithLoop("*", env, args, 1, <<1, 1, FALSE>>, d, st)

builtinDiv(env, args, d, st) == ArithFirst("/", env, args, d, st)

\* Go's % on ints truncates toward zero
GoRem(a, b) == LET r == Abs(a) % Abs(b) IN IF a < 0 THEN -r ELSE r

builtinMod(env, args, d, st) ==
    IF Len(args) # 2 THEN Fail(LispError("wrong number of arguments to %"), st)
    ELSE LET r1 == Eval(env, args[1], d + 1, st)
         IN  IF r1.err # "" THEN Fail(r1.err, St(r1))
             ELSE LET r2 == Eval(env, args[2], d + 1, St(r1))
                  IN  IF r2.err # "" THEN Fail(r2.err, St(r2))
                      ELSE IF r1.val.type # "LispNumber" \/ r2.val.type # "LispNumber"
                      THEN Fail(LispError("invalid arguments to %"), St(r2))
                      ELSE IF r2.val.num = 0
                      THEN Fail(LispError("division by zero"), St(r2))
                      ELSE Ok(LispNumber(GoRem(r1.val.num, r2.val.num)), St(r2))

ConcatLoop(env, args, i, acc, d, st) ==
    IF i > Len(args) THEN Ok(LispString(acc), st)
    ELSE LET r == Eval(env, args[i], d + 1, st)
         IN  IF r.err # "" THEN Fail(r.err, St(r))
             ELSE IF r.val.type # "LispString"
             THEN Fail(LispError("invalid argument to concat"), St(r))
             ELSE ConcatLoop(env, args, i + 1, acc \o r.val.str, d, St(r))

builtinConcat(env, args, d, st) == ConcatLoop(env, args, 1, "", d, st)

builtinIsNumber(env, args, d, st) ==
    IF Len(args) # 1 THEN Fail(LispError("wrong number of arguments to is-number"), st)
    ELSE LET r == Eval(env, args[1], d + 1, st)
         IN  IF r.err # "" THEN Fail(r.err, St(r))
             ELSE Ok(LispBoolean(IsNumeric(r.val)), St(r))

builtinIsString(env, args, d, st) ==
    IF Len(args) # 1 THEN Fail(LispError("wrong number of arguments to is-string"), st)
    ELSE LET r == Eval(env, args[1], d + 1, st)
         IN  IF r.err # "" THEN Fail(r.err, St(r))
             ELSE Ok(LispBoolean(r.val.type = "LispString"), St(r))

\* the Go comparison each of the four applies to num1.Value and num2.Value
Holds(op, a, b) ==
    CASE op = "<"  -> a < b
      [] op = "<=" -> a <= b
      [] op = ">"  -> a > b
      [] op = ">=" -> a >= b

\* the body shared by builtinLt, builtinLtOrEq, builtinGt and builtinGtOrEq:
\* sym is the operator their messages name, op the Go comparison
Compare(env, args, d, st, sym, op) ==
    IF Len(args) # 2 THEN Fail("wrong number of arguments to " \o sym, st)
    ELSE LET r1 == Eval(env, args[1], d + 1, st)
         IN  IF r1.err # "" THEN Fail(r1.err, St(r1))
             ELSE LET r2 == Eval(env, args[2], d + 1, St(r1))
                  IN  IF r2.err # "" THEN Fail(r2.err, St(r2))
                      ELSE IF r1.val.type # "LispNumber"
                      THEN Fail("invalid argument to " \o sym \o ": " \o String(r1.val), St(r2))
                      ELSE IF r2.val.type # "LispNumber"
                      THEN Fail("invalid argument to " \o sym \o ": " \o String(r2.val), St(r2))
                      ELSE IF Holds(op, r1.val.num, r2.val.num)
                      THEN Ok(LispAtom("true"), St(r2))
                      ELSE Ok(LispAtom("false"), St(r2))

builtinLt(env, args, d, st) == Compare(env, args, d, st, "<", "<")

\* a less-or-equal that compares strictly
builtinLtOrEqStrict(env, args, d, st) == Compare(env, args, d, st, "<", "<")

builtinLtOrEq(env, args, d, st) == Compare(env, args, d, st, "<", "<=")

builtinGt(env, args, d, st) == Compare(env, args, d, st, ">", ">")

builtinGtOrEq(env, args, d, st) == Compare(env, args, d, st, ">", ">=")

\* an equality that compares a string by its Value, without the quotes
builtinEqSpelling(env, args, d, st) ==
    IF Len(args) # 2 THEN Fail("wrong number of arguments to =", st)
    ELSE LET r1 == Eval(env, args[1], d + 1, st)
         IN  IF r1.err # "" THEN Fail(r1.err, St(r1))
             ELSE LET r2 == Eval(env, args[2], d + 1, St(r1))
                      Spelling(v) == IF v.type = "LispString" THEN v.str ELSE String(v)
                  IN  IF r2.err # "" THEN Fail(r2.err, St(r2))
                      ELSE IF Spelling(r1.val) = Spelling(r2.val)
                      THEN Ok(LispAtom("true"), St(r2))
                      ELSE Ok(LispAtom("false"), St(r2))

builtinEq(env, args, d, st) ==
    IF Len(args) # 2 THEN Fail("wrong number of arguments to =", st)
    ELSE LET r1 == Eval(env, args[1], d + 1, st)
         IN  IF r1.err # "" THEN Fail(r1.err, St(r1))
             ELSE LET r2 == Eval(env, args[2], d + 1, St(r1))
                  IN  IF r2.err # "" THEN Fail(r2.err, St(r2))
                      ELSE IF r1.val.type = "LispNumber" /\ r2.val.type = "LispNumber"
                      THEN IF r1.val.num = r2.val.num
                           THEN Ok(LispAtom("true"), St(r2))
                           ELSE Ok(LispAtom("false"), St(r2))
                      ELSE IF String(r1.val) = String(r2.val)
                      THEN Ok(LispAtom("true"), St(r2))
                      ELSE Ok(LispAtom("false"), St(r2))

\* `atom, ok := cond.(*LispAtom); ok && atom.Value == "true"`
IfTakesThen(cond) == cond.type = "LispAtom" /\ cond.str = "true"

\* a faulty variant: a condition whose evaluation fails counts as false
builtinIfFalseOnError(env, args, d, st) ==
    IF Len(args) # 3 THEN Fail("wrong number of arguments to if", st)
    ELSE LET c == Eval(env, args[1], d + 1, st)
         IN  IF c.err = "" /\ IfTakesThen(c.val)
             THEN Eval(env, args[2], d + 1, St(c))
             ELSE Eval(env, args[3], d + 1, St(c))

builtinIf(env, args, d, st) ==
    IF Len(args) # 3 THEN Fail("wrong number of arguments to if", st)
    ELSE LET c == Eval(env, args[1], d + 1, st)
         IN  IF c.err # "" THEN Fail(c.err, St(c))
             ELSE IF IfTakesThen(c.val)
             THEN Eval(env, args[2], d + 1, St(c))
             ELSE Eval(env, args[3], d + 1, St(c))

\* a faulty variant: the function is returned but never stored in env
builtinDefunUnbound(env, args, d, st) ==
    IF Len(args) # 3 THEN Fail("wrong number of arguments to defun", st)
    ELSE IF args[1].type # "LispAtom"
    THEN Fail("invalid function name: " \o String(args[1]), st)
    ELSE IF args[2].type # "LispList"
    THEN Fail("invalid function parameters: " \o String(args[2]), st)
    ELSE Ok(LispFunction(args[1].str, args[2].elems, args[3], env), st)

builtinDefun(env, args, d, st) ==
    IF Len(args) # 3 THEN Fail("wrong number of arguments to defun", st)
    ELSE IF args[1].type # "LispAtom"
    THEN Fail("invalid function name: " \o String(args[1]), st)
    ELSE IF args[2].type # "LispList"
    THEN Fail("invalid function parameters: " \o String(args[2]), st)
    ELSE LET fn == LispFunction(args[1].str, args[2].elems, args[3], env)
         IN  Ok(fn, SetEnv(st, env, args[1].str, fn))

\* a faulty variant: the lambda captures a copy of env taken when it is created
builtinLambdaSnapshot(env, args, d, st) ==
    IF Len(args) # 2 THEN Fail("wrong number of arguments to lambda", st)
    ELSE IF args[1].type # "LispList"
    THEN Fail("invalid lambda parameters: " \o String(args[1]), st)
    ELSE LET st1 == CopyEnv(st, env)
         IN  Ok(LispFunction("", args[1].elems, args[2], Len(st1.heap)), st1)

builtinLambda(env, args, d, st) ==
    IF Len(args) # 2 THEN Fail("wrong number of arguments to lambda", st)
    ELSE IF args[1].type # "LispList"
    THEN Fail("invalid lambda parameters: " \o String(args[1]), st)
    ELSE Ok(LispFunction("", args[1].elems, args[2], env), st)

\* the binding loop of builtinLet, then the body
LetLoop(local, bindings, i, body, d, st) ==
    IF i > Len(bindings) THEN Eval(local, body, d + 1, st)
    ELSE LET b == bindings[i]
         IN  IF b.type # "LispList" \/ Len(b.elems) # 2
             THEN Fail("invalid let binding: " \o String(b), st)
             ELSE IF b.elems[1].type # "LispAtom"
             THEN Fail("invalid let binding key: " \o String(b.elems[1]), st)
             ELSE LET r == Eval(local, b.elems[2], d + 1, st)
                  IN  IF r.err # "" THEN Fail(r.err, St(r))
                      ELSE LetLoop(local, bindings, i + 1, body, d,
                                   SetEnv(St(r), local, b.elems[1].str, r.val))

\* a faulty variant: every binding expression is evaluated in the enclosing env
\* (simultaneous instead of sequential binding)
LetLoopParallel(env, local, bindings, i, body, d, st) ==
    IF i > Len(bindings) THEN Eval(local, body, d + 1, st)
    ELSE LET b == bindings[i]
         IN  IF b.type # "LispList" \/ Len(b.elems) # 2
             THEN Fail("invalid let binding: " \o String(b), st)
             ELSE IF b.elems[1].type # "LispAtom"
             THEN Fail("invalid let binding key: " \o String(b.elems[1]), st)
             ELSE LET r == Eval(env, b.elems[2], d + 1, st)
                  IN  IF r.err # "" THEN Fail(r.err, St(r))
                      ELSE LetLoopParallel(env, local, bindings, i + 1, body, d,
                                           SetEnv(St(r), local, b.elems[1].str, r.val))

builtinLetParallel(env, args, d, st) ==
    IF Len(args) # 2 THEN Fail("wrong number of arguments to let", st)
    ELSE IF args[1].type # "LispList"
    THEN Fail("invalid let bindings: " \o String(args[1]), st)
    ELSE LET st1 == CopyEnv(st, env)
         IN  LetLoopParallel(env, Len(st1.heap), args[1].elems, 1, args[2], d, st1)

builtinLet(env, args, d, st) ==
    IF Len(args) # 2 THEN Fail("wrong number of arguments to let", st)
    ELSE IF args[1].type # "LispList"
    THEN Fail("invalid let bindings: " \o String(args[1]), st)
    ELSE LET st1 == CopyEnv(st, env)
         IN  LetLoop(Len(st1.heap), args[1].elems, 1, args[2], d, st1)

\* `boolean, ok := val.(*LispBoolean); ok && !boolean.Value`
AndStops(val) == val.type = "LispBoolean" /\ val.num = 0

\* `boolean, ok := val.(*LispBoolean); ok && boolean.Value`
OrStops(val) == val.type = "LispBoolean" /\ val.num = 1

AndLoop(env, args, i, d, st) ==
    IF i > Len(args) THEN Ok(LispBoolean(TRUE), st)
    ELSE LET r == Eval(env, args[i], d + 1, st)
         IN  IF r.err # "" THEN Fail(r.err, St(r))
             ELSE IF AndStops(r.val) THEN Ok(LispBoolean(FALSE), St(r))
             ELSE AndLoop(env, args, i + 1, d, St(r))

builtinAnd(env, args, d, st) == AndLoop(env, args, 1, d, st)

OrLoop(env, args, i, d, st) ==
    IF i > Len(args) THEN Ok(LispBoolean(FALSE), st)
    ELSE LET r == Eval(env, args[i], d + 1, st)
         IN  IF r.err # "" THEN Fail(r.err, St(r))
             ELSE IF OrStops(r.val) THEN Ok(LispBoolean(TRUE), St(r))
             ELSE OrLoop(env, args, i + 1, d, St(r))

builtinOr(env, args, d, st) == OrLoop(env, args, 1, d, st)

builtinNot(env, args, d, st) ==
    IF Len(args) # 1 THEN Fail(LispError("wrong number of arguments to not"), st)
    ELSE LET r == Eval(env, args[1], d + 1, st)
         IN  IF r.err # "" THEN Fail(r.err, St(r))
             ELSE IF r.val.type = "LispBoolean"
             THEN Ok(LispBoolean(r.val.num = 0), St(r))
             ELSE Ok(LispBoolean(FALSE), St(r))

\* builtinList(args): the argument expressions themselves, in a new list
builtinList(args, st) == Ok(LispList(args), st)

builtinCar(env, args, d, st) ==
    IF Len(args) # 1 THEN Fail("wrong number of arguments to car", st)
    ELSE LET r == Eval(env, args[1], d + 1, st)
         IN  IF r.err # "" THEN Fail(r.err, St(r))
             ELSE IF r.val.type # "LispList"
             THEN Fail("invalid argument to car: " \o String(r.val), St(r))
             ELSE IF Len(r.val.elems) = 0 THEN Fail("car of empty list", St(r))
             ELSE Ok(r.val.elems[1], St(r))

\* `list.Elements[1:]`, and the empty list of an empty list
CdrElements(es) == IF Len(es) = 0 THEN <<>> ELSE Tail(es)

builtinCdr(env, args, d, st) ==
    IF Len(args) # 1 THEN Fail("wrong number of arguments to cdr", st)
    ELSE LET r == Eval(env, args[1], d + 1, st)
         IN  IF r.err # "" THEN Fail(r.err, St(r))
             ELSE IF r.val.type # "LispList"
             THEN Fail("invalid argument to cdr: " \o String(r.val), St(r))
             ELSE Ok(LispList(CdrElements(r.val.elems)), St(r))

\* a cons that adds the element behind the list
ConsElementsBehind(elem, es) == es \o <<elem>>

\* `append([]LispValue{elem}, list.Elements...)`
ConsElements(elem, es) == <<elem>> \o es

builtinCons(env, args, d, st) ==
    IF Len(args) # 2 THEN Fail("wrong number of arguments to cons", st)
    ELSE LET r1 == Eval(env, args[1], d + 1, st)
         IN  IF r1.err # "" THEN Fail(r1.err, St(r1))
             ELSE LET r2 == Eval(env, args[2], d + 1, St(r1))
                  IN  IF r2.err # "" THEN Fail(r2.err, St(r2))
                      ELSE IF r2.val.type # "LispList"
                      THEN Fail("invalid argument to cons: " \o String(r2.val), St(r2))
                      ELSE Ok(LispList(ConsElements(r1.val, r2.val.elems)), St(r2))

builtinLength(env, args, d, st) ==
    IF Len(args) # 1 THEN Fail("wrong number of arguments to length", st)
    ELSE LET r == Eval(env, args[1], d + 1, st)
         IN  IF r.err # "" THEN Fail(r.err, St(r))
             ELSE IF r.val.type # "LispList"
             THEN Fail("invalid argument to length: " \o String(r.val), St(r))
             ELSE Ok(LispNumber(Len(r.val.elems)), St(r))

AppendLoop(env, args, i, result, d, st) ==
    IF i > Len(args) THEN Ok(LispList(result), st)
    ELSE LET r == Eval(env, args[i], d + 1, st)
         IN  IF r.err # "" THEN Fail(r.err, St(r))
             ELSE IF r.val.type # "LispList"
             THEN Fail("invalid argument to append: " \o String(r.val), St(r))
             ELSE AppendLoop(env, args, i + 1, result \o r.val.elems, d, St(r))

builtinAppend(env, args, d, st) == AppendLoop(env, args, 1, <<>>, d, st)

\* the parameter loop of callFunction: argument i is evaluated in the
\* caller's env and bound in the new environment local; then the body
ParamLoop(env, local, lambda, args, i, d, st) ==
    IF i > Len(lambda.elems)
    THEN Eval(local, lambda.body[1], d + 1,
              Logged(st, BodyEvent(local, lambda, d + 1, env, st)))
    ELSE IF lambda.elems[i].type # "LispAtom"
    THEN Fail("invalid parameter name: " \o String(lambda.elems[i]), st)
    ELSE LET r == Eval(env, args[i], d + 1, st)
         IN  IF r.err # "" THEN Fail(r.err, St(r))
             ELSE ParamLoop(env, local, lambda, args, i + 1, d,
                            SetEnv(St(r), local, lambda.elems[i].str, r.val))

\* a faulty variant: the body runs in the function's captured environment
\* itself, not in a copy of it
callFunctionShared(env, name, args, d, st) ==
    IF name \notin DOMAIN st.heap[env] THEN Fail("undefined function: " \o name, st)
    ELSE LET lambda == st.heap[env][name]
         IN  IF lambda.type # "LispFunction" THEN Fail("invalid function: " \o name, st)
             ELSE IF Len(lambda.elems) # Len(args)
             THEN Fail("wrong number of arguments to " \o name, st)
             ELSE ParamLoop(env, lambda.env, lambda, args, 1, d, st)

\* a faulty variant: the new environment starts from the caller's environment
callFunctionDynamic(env, name, args, d, st) ==
    IF name \notin DOMAIN st.heap[env] THEN Fail("undefined function: " \o name, st)
    ELSE LET lambda == st.heap[env][name]
         IN  IF lambda.type # "LispFunction" THEN Fail("invalid function: " \o name, st)
             ELSE IF Len(lambda.elems) # Len(args)
             THEN Fail("wrong number of arguments to " \o name, st)
             ELSE LET st1 == CopyEnv(st, env)
                  IN  ParamLoop(env, Len(st1.heap), lambda, args, 1, d, st1)

\* a faulty variant: the number of arguments is compared with the number of
\* parameters only after the arguments that have a parameter were evaluated
callFunctionLateArity(env, name, args, d, st) ==
    IF name \notin DOMAIN st.heap[env] THEN Fail("undefined function: " \o name, st)
    ELSE LET lambda == st.heap[env][name]
         IN  IF lambda.type # "LispFunction" THEN Fail("invalid function: " \o name, st)
             ELSE LET st1 == CopyEnv(st, lambda.env)
                      n == IF Len(args) < Len(lambda.elems) THEN Len(args)
                           ELSE Len(lambda.elems)
                      r == ParamLoop(env, Len(st1.heap),
                                     [lambda EXCEPT !.elems = SubSeq(@, 1, n)],
                                     SubSeq(args, 1, n), 1, d, st1)
                  IN  IF Len(lambda.elems) # Len(args)
                      THEN Fail("wrong number of arguments to " \o name, St(r))
                      ELSE r

callFunction(env, name, args, d, st) ==
    IF name \notin DOMAIN st.heap[env] THEN Fail("undefined function: " \o name, st)
    ELSE LET lambda == st.heap[env][name]
         IN  IF lambda.type # "LispFunction" THEN Fail("invalid function: " \o name, st)
             ELSE IF Len(lambda.elems) # Len(args)
             THEN Fail("wrong number of arguments to " \o name, st)
             ELSE LET st1 == CopyEnv(st, lambda.env)
                  IN  ParamLoop(env, Len(st1.heap), lambda, args, 1, d, st1)

\* builtins whose work is done by the host (fmt, math, stdin) and that the
\* model does not interpret; no modelled program calls them
Uninterpreted == {"format", "read", "pow", "sqrt", "substring"}

Eval(env, expr, d, st0) ==
    LET st == Logged(st0, EvalEvent(env, expr, d, st0))
    IN  CASE expr.type = "LispAtom" ->
               IF expr.str \in DOMAIN st.heap[env]
               THEN Ok(st.heap[env][expr.str], st)
               ELSE Fail(LispError("unbound symbol: " \o expr.str), st)
          [] expr.type \in {"LispNumber", "LispFloat", "LispString",
                            "LispBoolean", "LispNil"} -> Ok(expr, st)
          [] expr.type = "LispList" ->
               IF Len(expr.elems) = 0 THEN Ok(expr, st)
               ELSE IF expr.elems[1].type # "LispAtom"
               THEN Fail(LispError("invalid function call: " \o String(expr.elems[1])), st)
               ELSE LET fn == expr.elems[1].str
                        args == Tail(expr.elems)
                    IN  CASE fn = "print" -> builtinPrint(env, args, d, st)
                          [] fn = "+" -> builtinAdd(env, args, d, st)
                          [] fn = "-" -> builtinSub(env, args, d, st)
                          [] fn = "*" -> builtinMul(env, args, d, st)
                          [] fn = "/" -> builtinDiv(env, args, d, st)
                          [] fn = "%" -> builtinMod(env, args, d, st)
                          [] fn = "concat" -> builtinConcat(env, args, d, st)
                          [] fn = "isNumber" -> builtinIsNumber(env, args, d, st)
                          [] fn = "isString" -> builtinIsString(env, args, d, st)
                          [] fn = "<" -> builtinLt(env, args, d, st)
                          [] fn = "<=" -> builtinLtOrEq(env, args, d, st)
                          [] fn = ">" -> builtinGt(env, args, d, st)
                          [] fn = ">=" -> builtinGtOrEq(env, args, d, st)
                          [] fn = "=" -> builtinEq(env, args, d, st)
                          [] fn = "if" -> builtinIf(env, args, d, st)
                          [] fn = "defun" -> builtinDefun(env, args, d, st)
                          [] fn = "lambda" -> builtinLambda(env, args, d, st)
                          [] fn = "let" -> builtinLet(env, args, d, st)
                          [] fn = "and" -> builtinAnd(env, args, d, st)
                          [] fn = "or" -> builtinOr(env, args, d, st)
                          [] fn = "not" -> builtinNot(env, args, d, st)
                          [] fn = "list" -> builtinList(args, st)
                          [] fn = "car" -> builtinCar(env, args, d, st)
                          [] fn = "cdr" -> builtinCdr(env, args, d, st)
                          [] fn = "cons" -> builtinCons(env, args, d, st)
                          [] fn = "length" -> builtinLength(env, args, d, st)
                          [] fn = "append" -> builtinAppend(env, args, d, st)
                          [] fn \in Uninterpreted -> Fail("uninterpreted builtin", st)
                          [] OTHER -> callFunction(env, fn, args, d, st)
          [] OTHER -> Fail(LispError("unknown expression type"), st)

(***************************************************************************)
(* main.go                                                                 *)
(***************************************************************************)
\* initEnvironment
initEnvironment ==
    ("t" :> LispBoolean(TRUE)) @@ ("nil" :> LispNil) @@
    ("true" :> LispBoolean(TRUE)) @@ ("false" :> LispBoolean(FALSE))

\* the heap index of the global `env` of main.go
GlobalEnv == 1

RECURSIVE MultiLoopContinues(_, _, _, _, _)
\* a faulty variant: after a failing expression the later ones are still
\* evaluated, and the first error is returned at the end
MultiLoopContinues(env, expressions, i, acc, st) ==
    IF i > Len(expressions) THEN Ok(LispList(acc), st)
    ELSE LET r == Eval(env, expressions[i], 0, st)
         IN  IF r.err # ""
             THEN Fail(r.err, St(MultiLoopContinues(env, expressions, i + 1, acc, St(r))))
             ELSE MultiLoopContinues(env, expressions, i + 1, Append(acc, r.val), St(r))

RECURSIVE MultiLoop(_, _, _, _, _)
\* the loop of evalMultipleExpressions; a result's val is the list of results
MultiLoop(env, expressions, i, acc, st) ==
    IF i > Len(expressions) THEN Ok(LispList(acc), st)
    ELSE LET r == Eval(env, expressions[i], 0, st)
         IN  IF r.err # "" THEN Fail(r.err, St(r))
             ELSE MultiLoop(env, expressions, i + 1, Append(acc, r.val), St(r))

evalMultipleExpressions(env, expressions, st) == MultiLoop(env, expressions, 1, <<>>, st)

\* a faulty variant: a failing input takes the global environment back to
\* its initial contents
ExecuteResetting(expr, st) ==
    LET r == IF expr.type = "LispList"
             THEN evalMultipleExpressions(GlobalEnv, expr.elems, st)
             ELSE Eval(GlobalEnv, expr, 0, st)
    IN  IF r.err # "" THEN Fail(r.err, [St(r) EXCEPT !.heap[GlobalEnv] = initEnvironment])
        ELSE IF expr.type = "LispList" THEN r ELSE Ok(LispList(<<r.val>>), St(r))

\* executor, from the parsed expression on: a list is a sequence of
\* top-level expressions, anything else is evaluated as it is
Execute(expr, st) ==
    IF expr.type = "LispList"
    THEN evalMultipleExpressions(GlobalEnv, expr.elems, st)
    ELSE LET r == Eval(GlobalEnv, expr, 0, st)
         IN  IF r.err # "" THEN Fail(r.err, St(r)) ELSE Ok(LispList(<<r.val>>), St(r))

(***************************************************************************)
(* The parser (Parse, on the tokens Tokenize makes).  A token is a record  *)
(* [Type, Value, Line, Column]; the Type of a bracket is the bracket.      *)
(***************************************************************************)
Token(type, value, line, column) ==
    [Type |-> type, Value |-> value, Line |-> line, Column |-> column]

\* (*LispError).Error() with the position of a token
LispErrorAt(line, column, msg) ==
    "Error at line " \o Itoa(line) \o ", column " \o Itoa(column) \o ": " \o msg

\* what Parse returns: the tree, the tokens left, the error
ParseOk(v, rest) == [val |-> v, rest |-> rest, err |-> ""]

ParseFail(msg) == [val |-> GoNil, rest |-> <<>>, err |-> msg]

IsDigit(c) == \E n \in 0..9 : Digit(n) = c

DigitValue(c) == CHOOSE n \in 0..9 : Digit(n) = c

RECURSIVE AllDigits(_)
AllDigits(s) == Len(s) = 0 \/ (IsDigit(Head(s)) /\ AllDigits(Tail(s)))

RECURSIVE AtoiNat(_, _)
AtoiNat(s, acc) ==
    IF Len(s) = 0 THEN acc ELSE AtoiNat(Tail(s), acc * 10 + DigitValue(Head(s)))

\* `num, _ := strconv.Atoi(token.Value)`: 0 when the text is not a number
Atoi(s) ==
    LET neg == Len(s) > 0 /\ Head(s) = "-"
        digits == IF Len(s) > 0 /\ Head(s) \in {"+", "-"} THEN Tail(s) ELSE s
    IN  IF Len(digits) = 0 \/ ~AllDigits(digits) THEN 0
        ELSE IF neg THEN -AtoiNat(digits, 0) ELSE AtoiNat(digits, 0)

RECURSIVE Pow10(_)
Pow10(k) == IF k = 0 THEN 1 ELSE 10 * Pow10(k - 1)

RECURSIVE DotAt(_, _)
\* the position of the first DOT of s from position i on, 0 if there is none
DotAt(s, i) == IF Len(s) = 0 THEN 0 ELSE IF Head(s) = "." THEN i ELSE DotAt(Tail(s), i + 1)

RECURSIVE ExpAt(_, _)
\* the position of the first e or E of s from position i on, 0 if there is none
ExpAt(s, i) ==
    IF Len(s) = 0 THEN 0 ELSE IF Head(s) \in {"e", "E"} THEN i ELSE ExpAt(Tail(s), i + 1)

\* the text after the sign, if it begins with one
Unsigned(s) == IF Len(s) > 0 /\ Head(s) \in {"+", "-"} THEN Tail(s) ELSE s

\* the part of the text before position i, all of it if i is 0
Before(s, i) == IF i = 0 THEN s ELSE SubSeq(s, 1, i - 1)

\* the part of the text after position i, none of it if i is 0
After(s, i) == IF i = 0 THEN "" ELSE SubSeq(s, i + 1, Len(s))

\* the parts of a text as strconv.ParseFloat reads them, given its digits
\* before and after the DOT, whether it has an exponent mark and the text
\* after the mark
FloatRecord(s, whole, frac, marked, power) ==
    LET special == Unsigned(s) \in {"inf", "infinity"} \/ s = "nan"
        decimal == /\ AllDigits(whole) /\ AllDigits(frac) /\ Len(whole) + Len(frac) > 0
                   /\ ~marked \/ (Len(Unsigned(power)) > 0 /\ AllDigits(Unsigned(power)))
    IN  [ok |-> special \/ decimal, special |-> special,
         neg |-> Len(s) > 0 /\ Head(s) = "-",
         whole |-> whole, frac |-> frac,
         exp |-> IF ~decimal \/ ~marked THEN 0
                 ELSE IF Head(power) = "-" THEN -AtoiNat(Unsigned(power), 0)
                 ELSE AtoiNat(Unsigned(power), 0)]

\* the same, given the text before the exponent mark
FloatMantissa(s, mantissa, marked, power) ==
    FloatRecord(s, Before(mantissa, DotAt(mantissa, 1)), After(mantissa, DotAt(mantissa, 1)),
                marked, power)

\* the same, given the text after the sign
FloatBody(s, body) ==
    FloatMantissa(s, Before(body, ExpAt(body, 1)), ExpAt(body, 1) # 0, After(body, ExpAt(body, 1)))

\* strconv.ParseFloat reads [sign] digits [DOT digits] [e [sign] digits]
\* with at least one digit before the exponent, or [sign] inf, [sign]
\* infinity or nan: whether s is such a text, and its parts (the digits before and after
\* the DOT, the exponent).  Hexadecimal texts, underscores and capitals are
\* not among the inputs
FloatParts(s) == FloatBody(s, Unsigned(s))

\* the float64 nearest to n / 10^scale
Scaled(n, scale) ==
    IF scale >= 0 THEN Rat(n, Pow10(scale)) ELSE Rat(n * Pow10(-scale), 1)

\* the float64 nearest to the fraction q
NearestFloat(q) ==
    IF IsPow2(q[2]) THEN LispFloat(q[1], q[2]) ELSE RoundedFloat(q[1], q[2])

\* the value of the parts p of a text
FloatValue(p) ==
    IF ~p.ok \/ p.special THEN LispFloat(0, 1)
    ELSE NearestFloat(Scaled((IF p.neg THEN -1 ELSE 1)
                                * (AtoiNat(p.whole, 0) * Pow10(Len(p.frac)) + AtoiNat(p.frac, 0)),
                             Len(p.frac) - p.exp))

\* `num, _ := strconv.ParseFloat(token.Value, 64)` on the text of a FLOAT
\* token: the float64 nearest to the decimal, 0 for any other text
ParseFloat(s) == FloatValue(FloatParts(s))

\* a faulty variant: a list the tokens end in is taken as closed
CloseListLenient(token, tokens, elements) ==
    IF Len(tokens) = 0 THEN ParseOk(LispList(elements), <<>>)
    ELSE ParseOk(LispList(elements), Tail(tokens))

\* case OPEN_BRACKET, after the loop: the tokens ran out, or the close
\* bracket is consumed and the list returned
CloseList(token, tokens, elements) ==
    IF Len(tokens) = 0
    THEN ParseFail(LispErrorAt(token.Line, token.Column, "unexpected EOF while reading"))
    ELSE ParseOk(LispList(elements), Tail(tokens))

RECURSIVE Parse(_)
RECURSIVE ParseElements(_, _, _)
\* case OPEN_BRACKET, the loop: token is the open bracket, tokens follow it
ParseElements(token, tokens, elements) ==
    IF Len(tokens) > 0 /\ tokens[1].Type # ")"
    THEN LET p == Parse(tokens)
         IN  IF p.err # "" THEN ParseFail(p.err)
             ELSE ParseElements(token, p.rest, Append(elements, p.val))
    ELSE CloseList(token, tokens, elements)

Parse(tokens) ==
    IF Len(tokens) = 0 THEN ParseFail(LispError("unexpected EOF while reading"))
    ELSE LET token == tokens[1]
             rest == Tail(tokens)
         IN  CASE token.Type = "(" -> ParseElements(token, rest, <<>>)
               [] token.Type = "STRING" -> ParseOk(LispString(token.Value), rest)
               [] token.Type = "NUMBER" -> ParseOk(LispNumber(Atoi(token.Value)), rest)
               [] token.Type = "FLOAT" -> ParseOk(ParseFloat(token.Value), rest)
               [] token.Type = "BOOLEAN" -> ParseOk(LispBoolean(token.Value = "true"), rest)
               [] token.Type = "NIL" -> ParseOk(LispNil, rest)
               [] OTHER -> ParseOk(LispAtom(token.Value), rest)

(***************************************************************************)
(* The tokenizer (Tokenize, createToken), on the characters the inputs     *)
(* use.  token.Len() counts bytes; every character of the inputs is one    *)
(* byte.                                                                   *)
(***************************************************************************)
\* unicode.IsSpace
IsSpace(char) == char \in {" ", "\n", "\t", "\r"}

\* the state of the loop of Tokenize: the tokens made, the text of the
\* token being read, and the flags and the position
Lexer(tokens, token, inString, escapeNext, line, column) ==
    [tokens |-> tokens, token |-> token, inString |-> inString,
     escapeNext |-> escapeNext, line |-> line, column |-> column]

\* err == nil of strconv.ParseFloat(value, 64)
ParseFloatOk(value) == FloatParts(value).ok

RECURSIVE Contains(_, _)
\* strings.Contains(value, c) for a character c
Contains(value, c) == Len(value) > 0 /\ (Head(value) = c \/ Contains(Tail(value), c))

createToken(value, line, column) ==
    Token(CASE value \in {"true", "false"} -> "BOOLEAN"
            [] value = "nil" -> "NIL"
            [] OTHER -> IF ParseFloatOk(value)
                        THEN (IF Contains(value, ".") THEN "FLOAT" ELSE "NUMBER")
                        ELSE "IDENTIFIER",
          value, line, column)

\* tokens = append(tokens, createToken(token.String(), line, column-token.Len()))
\* and token.Reset()
Flush(s) ==
    [s EXCEPT !.tokens = Append(@, createToken(s.token, s.line, s.column - Len(s.token))),
              !.token = ""]

\* token.WriteRune(char)
WriteRune(s, char) == [s EXCEPT !.token = @ \o char]

\* a faulty variant: a bracket is added to the pending token's text
BracketJoins(s, char) == WriteRune(s, char)

\* case char == OPEN_BRACKET || char == CLOSE_BRACKET, outside a string
Bracket(s, char) ==
    LET s1 == IF Len(s.token) > 0 THEN Flush(s) ELSE s
    IN  [s1 EXCEPT !.tokens = Append(@, Token(char, char, s.line, s.column))]

\* case char == DOUBLE_QUOTE, closing a string
CloseString(s) ==
    [s EXCEPT !.inString = FALSE,
              !.tokens = Append(@, Token("STRING", s.token, s.line, s.column - Len(s.token))),
              !.token = ""]

\* the body of the loop of Tokenize: the switch on one character
TokenizeChar(s, char) ==
    CASE IsSpace(char) ->
           LET s1 == IF ~s.inString /\ Len(s.token) > 0 THEN Flush(s)
                     ELSE IF s.inString THEN WriteRune(s, char) ELSE s
           IN  IF char = "\n" THEN [s1 EXCEPT !.line = @ + 1, !.column = 1]
               ELSE [s1 EXCEPT !.column = @ + 1]
      [] char \in {"(", ")"} ->
           LET s1 == IF s.inString THEN WriteRune(s, char) ELSE Bracket(s, char)
           IN  [s1 EXCEPT !.column = @ + 1]
      [] char = "\"" ->
           LET s1 == IF s.inString /\ ~s.escapeNext THEN CloseString(s)
                     ELSE [s EXCEPT !.inString = TRUE]
           IN  [s1 EXCEPT !.escapeNext = FALSE, !.column = @ + 1]
      [] char = "\\" ->
           LET s1 == IF s.inString /\ ~s.escapeNext THEN [s EXCEPT !.escapeNext = TRUE]
                     ELSE WriteRune(s, char)
           IN  [s1 EXCEPT !.column = @ + 1]
      [] OTHER -> [WriteRune(s, char) EXCEPT !.column = @ + 1]

RECURSIVE TokenizeLoop(_, _)
\* `for _, char := range input`, and the flush after it
TokenizeLoop(text, s) ==
    IF Len(text) = 0 THEN (IF Len(s.token) > 0 THEN Flush(s).tokens ELSE s.tokens)
    ELSE TokenizeLoop(Tail(text), TokenizeChar(s, Head(text)))

Tokenize(text) == TokenizeLoop(text, Lexer(<<>>, "", FALSE, FALSE, 1, 1))

\* the source text of an input, as the executor receives it; `of` is kept
\* for the record: the value the text is the rendering of, if it is one
Source(text, of) == Value("Source", text, 0, 1, of, <<>>, 0)

\* the tokens of an input, as the executor receives them from Tokenize
Tokens(ts) == Value("Tokens", "", 0, 1, ts, <<>>, 0)

\* the history records the tree a successful Parse returned
ParseEvent(tree) ==
    [kind |-> "parse", env |-> 0, expr |-> tree, depth |-> 0, from |-> 0, snap |-> <<>>]

\* executor, after Parse returned p: a Parse error is printed and nothing is
\* evaluated, otherwise the tree is evaluated (`tokens`: the input went
\* through Parse, which the history records)
ExecuteParsed(p, tokens, st) ==
    IF p.err # "" THEN Fail(p.err, st)
    ELSE Execute(p.val, IF tokens THEN Logged(st, ParseEvent(p.val)) ELSE st)

\* executor: the source text is tokenized, the tokens are parsed (an input
\* given as tokens stands for the text Tokenize makes them of, one given as
\* a tree for the text Parse returns that tree for); a Parse error is
\* printed and nothing is evaluated; the tokens Parse leaves are dropped
ExecuteInput(expr, st) ==
    ExecuteParsed(CASE expr.type = "Source" -> Parse(Tokenize(expr.str))
                    [] expr.type = "Tokens" -> Parse(expr.elems)
                    [] OTHER -> ParseOk(expr, <<>>),
                  expr.type \in {"Tokens", "Source"}, st)

(***************************************************************************)
(* The cached Parse (the version with parseCache and parseCacheLock), run  *)
(* by goroutines one statement at a time.  `stack[g]` is the call stack of *)
(* goroutine g, one frame per Parse call that has not returned, the        *)
(* innermost last.  A frame holds the call's locals and `pc`, the          *)
(* statement it executes next:                                             *)
(*   "rlock"   parseCacheLock.RLock()                                      *)
(*   "lookup"  cachedExpr, ok := parseCache[cacheKey]                      *)
(*   "hit"     parseCacheLock.RUnlock(); return cachedExpr, nil, nil       *)
(*   "miss"    parseCacheLock.RUnlock(); the switch on token.Type          *)
(*   "loop"    the loop of case OPEN_BRACKET and what follows it           *)
(*   "call"    waiting for the Parse call the loop made                    *)
(*   "lock"    parseCacheLock.Lock(), called                               *)
(*   "locking" parseCacheLock.Lock(), waiting for the lock                 *)
(*   "store"   parseCache[cacheKey] = result                               *)
(*   "unlock"  parseCacheLock.Unlock(); return result, tokens, nil         *)
(* parseCacheLock is a sync.RWMutex: the goroutines holding it for         *)
(* reading, the one holding it for writing (0 for none) and the ones       *)
(* blocked in Lock(), which block every later RLock().                     *)
(***************************************************************************)
\* the goroutines that may call Parse at the same time
MaxCallers == 2

\* tokensToString(tokens), the key of the cache: the texts of the tokens
tokensToString(tokens) == [i \in 1..Len(tokens) |-> tokens[i].Value]

\* the frame of a Parse call on the (non-empty) tokens, about to take the
\* read lock
Frame(tokens) ==
    [pc |-> "rlock", cacheKey |-> tokensToString(tokens), token |-> tokens[1],
     tokens |-> tokens, elements |-> <<>>, result |-> GoNil]

\* the frames left below the innermost one
Callers(frames) == SubSeq(frames, 1, Len(frames) - 1)

RECURSIVE Return(_, _)
\* a Parse call returns r to the frames below it: the calling loop returns
\* an error as it is, and otherwise appends the element and goes on with the
\* tokens the call left; `ret` is what the outermost call returned
Return(frames, r) ==
    IF Len(frames) = 0 THEN [stack |-> <<>>, ret |-> <<r>>]
    ELSE LET f == frames[Len(frames)]
         IN  IF r.err # "" THEN Return(Callers(frames), ParseFail(r.err))
             ELSE [stack |-> [frames EXCEPT ![Len(frames)] =
                                 [f EXCEPT !.pc = "loop", !.tokens = r.rest,
                                           !.elements = Append(@, r.val)]],
                   ret |-> <<>>]

\* the switch on token.Type: an open bracket starts the loop, any other
\* token is the result, to be cached
Switch(f) ==
    IF f.token.Type = "("
    THEN [f EXCEPT !.pc = "loop", !.tokens = Tail(@)]
    ELSE [f EXCEPT !.pc = "lock", !.tokens = Tail(@), !.result = Parse(<<f.token>>).val]

(***************************************************************************)
(* Building expressions (what Parse returns for the source text shown).    *)
(***************************************************************************)
A(s) == LispAtom(s)

N(n) == LispNumber(n)

\* (f a1 ... an)
Call(f, args) == LispList(<<LispAtom(f)>> \o args)

\* ( e1 ... en ): the top-level list the executor receives
Top(es) == LispList(es)

\* (defun name (params) body)
Defun(name, params, fbody) == Call("defun", <<A(name), LispList(params), fbody>>)

\* (lambda (params) body)
Lambda(params, fbody) == Call("lambda", <<LispList(params), fbody>>)

\* (let ((k1 e1) ... (kn en)) body), bindings given as <<k, e>> pairs
Let(bindings, fbody) ==
    Call("let", <<LispList([i \in 1..Len(bindings) |->
                              LispList(<<A(bindings[i][1]), bindings[i][2]>>)]), fbody>>)

\* (if (<= n 1) 1 (* n (name (- n 1)))), the body of the factorial examples
FactBody(name) ==
    Call("if", <<Call("<=", <<A("n"), N(1)>>), N(1),
                 Call("*", <<A("n"), Call(name, <<Call("-", <<A("n"), N(1)>>)>>)>>)>>)

DefSquare == Defun("square", <<A("x")>>, Call("*", <<A("x"), A("x")>>))

DefFact == Defun("fact", <<A("n")>>, FactBody("fact"))

RECURSIVE Factorial(_)
Factorial(n) == IF n <= 1 THEN 1 ELSE n * Factorial(n - 1)

(***************************************************************************)
(* The inputs of the sessions, by suite.                                   *)
(***************************************************************************)
\* a defun in a let binding:
\*   ( (let ((a k) (tmp (defun addA (x) (+ x a)))) (addA 1)) )
LetDefun(k) ==
    Top(<<Let(<<<<"a", N(k)>>,
                <<"tmp", Defun("addA", <<A("x")>>, Call("+", <<A("x"), A("a")>>))>>>>,
              Call("addA", <<N(1)>>))>>)

\* (defun free () y): the body refers to a name the global environment lacks
DefFree == Defun("free", <<>>, A("y"))

\* ( (let ((y k)) (free)) )
LetCallsFree(k) == Top(<<Let(<<<<"y", N(k)>>>>, Call("free", <<>>))>>)

\* ( (defun free () y) (let ((y k)) (free)) )
FreeInLet(k) == Top(<<DefFree, Let(<<<<"y", N(k)>>>>, Call("free", <<>>))>>)

\* ( (defun ident (x) x) (let ((y k)) (ident y)) )
IdentInLet(k) ==
    Top(<<Defun("ident", <<A("x")>>, A("x")),
          Let(<<<<"y", N(k)>>>>, Call("ident", <<A("y")>>))>>)

\* ( (defun inner () n) (defun outer (n) (inner)) (outer k) )
ParamCaller(k) ==
    Top(<<Defun("inner", <<>>, A("n")),
          Defun("outer", <<A("n")>>, Call("inner", <<>>)),
          Call("outer", <<N(k)>>)>>)

\* ( (defun second (x y) y) (let ((x k)) (second (+ x 1) x)) )
SecondInLet(k) ==
    Top(<<Defun("second", <<A("x"), A("y")>>, A("y")),
          Let(<<<<"x", N(k)>>>>,
              Call("second", <<Call("+", <<A("x"), N(1)>>), A("x")>>))>>)

\* ( (let ((fact (lambda (n) (if (<= n 1) 1 (* n (fact (- n 1))))))) (fact n)) )
LetFact(n) ==
    Top(<<Let(<<<<"fact", Lambda(<<A("n")>>, FactBody("fact"))>>>>,
              Call("fact", <<N(n)>>))>>)

\* (defun callsLater (x) (later x)), defined while later is not
DefCallsLater == Defun("callsLater", <<A("x")>>, Call("later", <<A("x")>>))

\* (defun later (x) (* x 2))
DefLater == Defun("later", <<A("x")>>, Call("*", <<A("x"), N(2)>>))

\* ( (defun later (x) (* x 2)) (callsLater k) )
LaterThenCall(k) == Top(<<DefLater, Call("callsLater", <<N(k)>>)>>)

\* ( (defun callsLater (x) (later x)) (defun later (x) (* x 2)) (callsLater k) )
Forward(k) == Top(<<DefCallsLater, DefLater, Call("callsLater", <<N(k)>>)>>)

\* ( (let ((a x) (b y)) (+ a b)) )
LetSum(x, y) ==
    Top(<<Let(<<<<"a", N(x)>>, <<"b", N(y)>>>>, Call("+", <<A("a"), A("b")>>))>>)

\* ( (let ((a x) (b (+ a 1))) b) )
LetSeq(x) ==
    Top(<<Let(<<<<"a", N(x)>>, <<"b", Call("+", <<A("a"), N(1)>>)>>>>, A("b"))>>)

\* ( (let ((a x) (a (+ a 1))) a) )
LetOverride(x) ==
    Top(<<Let(<<<<"a", N(x)>>, <<"a", Call("+", <<A("a"), N(1)>>)>>>>, A("a"))>>)

\* ( (let ((a x)) (let ((b (+ a 1)) (a (+ b 1))) (+ a b))) )
LetNested(x) ==
    Top(<<Let(<<<<"a", N(x)>>>>,
              Let(<<<<"b", Call("+", <<A("a"), N(1)>>)>>,
                    <<"a", Call("+", <<A("b"), N(1)>>)>>>>,
                  Call("+", <<A("a"), A("b")>>)))>>)

\* ( (let ((a x) (b (square a))) b) )
LetSquare(x) ==
    Top(<<Let(<<<<"a", N(x)>>, <<"b", Call("square", <<A("a")>>)>>>>, A("b"))>>)

\* let
LetPrograms ==
    {Top(<<DefSquare>>)}
    \cup {LetSum(x, y) : x, y \in 0..MaxInt}
    \cup {LetSeq(x) : x \in 0..MaxInt}
    \cup {LetOverride(x) : x \in 0..MaxInt}
    \cup {LetNested(x) : x \in 0..MaxInt}
    \cup {LetSquare(x) : x \in 0..MaxInt}

\* defun, recursion
DefunPrograms ==
    {Top(<<DefSquare>>), Top(<<DefFact>>)}
    \cup {Top(<<Call("square", <<N(k)>>)>>) : k \in 0..MaxSquare}
    \cup {Top(<<Call("fact", <<N(n)>>)>>) : n \in 0..MaxFact}
    \cup {Top(<<DefFact, Call("fact", <<N(MaxFact)>>)>>)}
    \cup {LetDefun(k) : k \in 0..MaxInt}

\* the scope of a call's arguments and body
ScopePrograms ==
    {Top(<<DefFree>>)}
    \cup {LetCallsFree(k) : k \in 0..MaxInt}
    \cup {FreeInLet(k) : k \in 0..MaxInt}
    \cup {IdentInLet(k) : k \in 0..MaxInt}
    \cup {ParamCaller(k) : k \in 0..MaxInt}
    \cup {SecondInLet(k) : k \in 0..MaxInt}

\* closures
ClosurePrograms ==
    {Top(<<DefCallsLater>>)}
    \cup {LetFact(n) : n \in 0..MaxFact}
    \cup {LaterThenCall(k) : k \in 0..MaxInt}
    \cup {Forward(k) : k \in 0..MaxInt}

\* (defun mark () 1): evaluating it leaves the name mark bound
DefMark == Defun("mark", <<>>, N(1))

\* the comparison operators Eval dispatches
CmpOps == {"<", "<=", ">", ">=", "="}

\* (op i j) for the integers of the bound
Comparisons == {Call(op, <<N(i), N(j)>>) : op \in CmpOps, i, j \in 0..MaxInt}

\* conditions: the literals true and false, t, nil, the logical operators,
\* numbers, a string, and the comparisons
IfConds ==
    {LispBoolean(TRUE), LispBoolean(FALSE), A("t"), LispNil,
     Call("and", <<>>), Call("or", <<>>),
     Call("not", <<LispBoolean(FALSE)>>), Call("not", <<LispBoolean(TRUE)>>),
     N(0), N(1), LispString("true")}
    \cup Comparisons

\* the two branches: each is a number, an unbound symbol or a defun, so
\* that its evaluation shows in the result, the error or the environment
IfBranches ==
    {<<N(1), N(2)>>, <<A("boom"), N(2)>>, <<N(1), A("boom")>>,
     <<DefMark, N(2)>>, <<N(1), DefMark>>}

\* ( (if c a b) )
If(c, a, b) == Top(<<Call("if", <<c, a, b>>)>>)

\* if
IfPrograms == {If(c, p[1], p[2]) : c \in IfConds, p \in IfBranches}

\* (< i j) and (> i j), the comparisons of the README's example
LtGt == {Call(op, <<N(i), N(j)>>) : op \in {"<", ">"}, i, j \in 0..MaxInt}

\* argument lists of comparisons: one of any kind, or two of LtGt
CmpArgs == {<<c>> : c \in Comparisons} \cup {<<c1, c2>> : c1, c2 \in LtGt}

\* ( (let ((a k)) (if (and (< a 5) (> a 0)) 1 2)) )
LetIfAnd(k) ==
    Top(<<Let(<<<<"a", N(k)>>>>,
              Call("if", <<Call("and", <<Call("<", <<A("a"), N(5)>>),
                                         Call(">", <<A("a"), N(0)>>)>>),
                           N(1), N(2)>>))>>)

\* and, or, not over comparisons
CmpLogicPrograms ==
    {Top(<<Call(f, cs)>>) : f \in {"and", "or"}, cs \in CmpArgs}
    \cup {Top(<<Call("not", <<c>>)>>) : c \in Comparisons}
    \cup {LetIfAnd(3), LetIfAnd(6)}

\* arguments of and / or: the literals true and false, a comparison that
\* holds and one that does not, a number, an unbound symbol (its evaluation
\* is an error) and a defun (its evaluation binds mark)
LogicArg ==
    {LispBoolean(TRUE), LispBoolean(FALSE),
     Call("<", <<N(0), N(1)>>), Call("<", <<N(1), N(0)>>),
     N(1), A("boom"), DefMark}

\* the argument lists of up to MaxArgs arguments
LogicArgLists == UNION {[1..n -> LogicArg] : n \in 0..MaxArgs}

\* and, or
LogicPrograms == {Top(<<Call(f, as)>>) : f \in {"and", "or"}, as \in LogicArgLists}

\* arguments of list: integer literals, sums of two literals, and the
\* variable x
ListArg ==
    {N(k) : k \in 0..MaxInt}
    \cup {Call("+", <<N(i), N(j)>>) : i, j \in 0..MaxInt}
    \cup {A("x")}

\* the argument lists of zero, one and two arguments
ListArgLists == {<<>>} \cup {<<a>> : a \in ListArg} \cup {<<a, b>> : a, b \in ListArg}

\* ( (let ((x k)) (list e1 ... en)) )
LetList(k, es) == Top(<<Let(<<<<"x", N(k)>>>>, Call("list", es))>>)

\* list
ListEvalPrograms == {LetList(k, es) : k \in 0..MaxInt, es \in ListArgLists}

\* the element sequences of the literal lists: up to MaxLen integers
LitSeqs == UNION {[1..n -> {N(k) : k \in 0..MaxInt}] : n \in 0..MaxLen}

\* (list e1 ... en)
List(es) == Call("list", es)

\* the expressions consed onto a list: integers, a string, lists
ListX ==
    {N(k) : k \in 0..MaxInt}
    \cup {LispString("a"), List(<<>>), List(<<N(0)>>)}

\* ( (f e) ) and ( (f (g e1 e2)) )
On(f, e) == Top(<<Call(f, <<e>>)>>)

OnPair(f, g, e1, e2) == Top(<<Call(f, <<Call(g, <<e1, e2>>)>>)>>)

\* ( (let ((l (list ..)) (a (cons x l)) (b (append l a)) (c (car a))
\*         (d (cdr a)) (n (length b)))
\*      (cons l (cons a (cons b (list))))) )
Kept(x, l) ==
    Top(<<Let(<<<<"l", List(l)>>,
                <<"a", Call("cons", <<x, A("l")>>)>>,
                <<"b", Call("append", <<A("l"), A("a")>>)>>,
                <<"c", Call("car", <<A("a")>>)>>,
                <<"d", Call("cdr", <<A("a")>>)>>,
                <<"n", Call("length", <<A("b")>>)>>>>,
              Call("cons", <<A("l"), Call("cons", <<A("a"),
                    Call("cons", <<A("b"), List(<<>>)>>)>>)>>))>>)

\* expressions whose value is an empty list: (list), the cdr of a
\* one-element list, an append of empty lists
EmptyLists ==
    {List(<<>>), Call("append", <<List(<<>>), List(<<>>)>>)}
    \cup {Call("cdr", <<List(<<N(k)>>)>>) : k \in 0..MaxInt}

\* car, cdr, cons, length, append on the literal lists seqs
ListPrograms(seqs) ==
    {OnPair(f, "cons", x, List(l)) : f \in {"car", "cdr", "length"}, x \in ListX, l \in seqs}
    \cup {Top(<<Call("append", <<List(l), List(m)>>)>>) : l, m \in seqs}
    \cup {OnPair("length", "append", List(l), List(m)) : l, m \in seqs}
    \cup {On(f, List(l)) : f \in {"car", "cdr", "length"}, l \in seqs}
    \cup {Kept(x, l) : x \in ListX, l \in seqs}
    \cup {On(f, e) : f \in {"car", "cdr"}, e \in EmptyLists}

\* the float literal k/2 for an odd k (0.5, 1.5, 2.5, ...)
Half(k) == LispFloat(k, 2)

\* numeric literals: the integers -MaxInt..MaxInt, the halves between
\* -MaxInt-1 and MaxInt+1, and 0.0
ArithOperand ==
    {N(k) : k \in (-MaxInt)..MaxInt}
    \cup {Half(2 * k + 1) : k \in (-MaxInt - 1)..MaxInt}
    \cup {LispFloat(0, 1)}

\* the argument lists of up to MaxArgs numeric literals
ArithArgLists == UNION {[1..n -> ArithOperand] : n \in 0..MaxArgs}

\* the examples of the README, the tests and the spec
ArithExamples ==
    {Call("+", <<N(1), N(2)>>), Call("+", <<Half(5), N(12)>>),
     Call("-", <<N(3), Half(13)>>), Call("*", <<Half(-5), N(-8)>>),
     Call("/", <<N(7), N(2)>>), Call("/", <<N(0), N(5)>>),
     Call("/", <<N(1), N(3)>>), Call("/", <<N(10), N(0)>>)}

\* + - * / %
ArithPrograms ==
    {Top(<<Call(op, as)>>) : op \in {"+", "-", "*", "/"}, as \in ArithArgLists}
    \cup {Top(<<Call("%", <<a, b>>)>>) : a, b \in ArithOperand}
    \cup {Top(<<e>>) : e \in ArithExamples}

\* the ordering comparisons Eval dispatches
OrderOps == {"<", "<=", ">", ">="}

\* operands of the comparisons: the numeric literals, a string and true
CmpOperand == ArithOperand \cup {LispString("a"), LispBoolean(TRUE)}

\* ordering comparisons of two operands, and of none, one and three
CmpPrograms ==
    {Top(<<Call(op, <<a, b>>)>>) : op \in OrderOps, a, b \in CmpOperand}
    \cup {Top(<<Call(op, as)>>) : op \in OrderOps,
              as \in {<<>>, <<N(0)>>, <<N(0), N(1), N(2)>>}}

\* operands of =: integers, floats, strings spelled like other values,
\* the literals true, false and nil, t, comparisons and lists
EqOperand ==
    {N(k) : k \in 0..MaxInt}
    \cup {Half(1), LispFloat(0, 1),
          LispString("0"), LispString("true"), LispString("nil"), LispString("a"),
          LispBoolean(TRUE), LispBoolean(FALSE), LispNil, A("t"),
          Call("<", <<N(0), N(1)>>), Call("<", <<N(1), N(0)>>),
          List(<<>>), List(<<N(0)>>)}

\* ( (= a b) )
Eq(a, b) == Top(<<Call("=", <<a, b>>)>>)

\* =
EqPrograms == {Eq(a, b) : a, b \in EqOperand}

\* the names looked up: two the initial environment binds, two it does not
AtomNames == {"t", "nil", "x", "y"}

\* (let ((x k)) fbody)
LetX(k, fbody) == Let(<<<<"x", N(k)>>>>, fbody)

\* ( name ), ( (+ name 1) ), the same under a let that binds x, and the
\* definitions that bind x or y in the global environment
AtomPrograms ==
    {Top(<<A(n)>>) : n \in AtomNames}
    \cup {Top(<<Call("+", <<A(n), N(1)>>)>>) : n \in AtomNames}
    \cup {Top(<<LetX(k, A(n))>>) : k \in 0..MaxInt, n \in {"x", "y"}}
    \cup {Top(<<LetX(k, Call("+", <<A(n), N(1)>>))>>) : k \in 0..MaxInt, n \in {"x", "y"}}
    \cup {Top(<<Defun(n, <<>>, N(k))>>) : n \in {"x", "y"}, k \in 0..MaxInt}

\* the first n of the parameters a b c d
ArityParams(n) == SubSeq(<<A("a"), A("b"), A("c"), A("d")>>, 1, n)

\* an argument of a call: a number, a defun (its evaluation shows in the
\* global environment) or an unbound symbol (its evaluation fails)
ArityArg == {N(k) : k \in 0..MaxInt} \cup {DefMark, A("boom")}

ArityArgLists == UNION {[1..m -> ArityArg] : m \in 0..MaxArgs}

\* the sum of the n parameters
AritySum(n) == Call("+", ArityParams(n))

\* ( (defun f (params) (+ params)) (f args) )
DefunCall(n, args) == Top(<<Defun("f", ArityParams(n), AritySum(n)), Call("f", args)>>)

\* ( (let ((f (lambda (params) (+ params)))) (f args)) )
LetCall(n, args) ==
    Top(<<Let(<<<<"f", Lambda(ArityParams(n), AritySum(n))>>>>, Call("f", args))>>)

\* calls of a function of 0..MaxArgs parameters with 0..MaxArgs arguments
ArityPrograms ==
    {DefunCall(n, args) : n \in 0..MaxArgs, args \in ArityArgLists}
    \cup {LetCall(n, args) : n \in 0..MaxArgs, args \in ArityArgLists}

\* a division that fails in the builtin itself
TwoByZero == Call("/", <<N(2), N(0)>>)

\* the leaves of the programs below: a number, two unbound symbols and the
\* failing division
AbortLeaf == {N(1), A("boom1"), A("boom2"), TwoByZero}

\* an argument: a leaf or the sum of two leaves
AbortArg == AbortLeaf \cup {Call("+", <<l1, l2>>) : l1, l2 \in AbortLeaf}

\* the builtins applied to two arguments
AbortOps == {"+", "/", "=", "<", "and", "or", "print", "list"}

\* (op a b), (if a boom1 b), (let ((x a)) b) and (f a b) after a defun of f
AbortPrograms ==
    {Top(<<Call(op, <<a, b>>)>>) : op \in AbortOps, a \in AbortArg, b \in AbortArg}
    \cup {Top(<<Call("if", <<a, A("boom1"), b>>)>>) : a \in AbortArg, b \in AbortArg}
    \cup {Top(<<Let(<<<<"x", a>>>>, b)>>) : a \in AbortArg, b \in AbortArg}
    \cup {Top(<<Defun("f", <<A("a"), A("b")>>, Call("+", <<A("a"), A("b")>>)),
                 Call("f", <<a, b>>)>>) : a \in AbortArg, b \in AbortArg}

\* the longest token sequence given to Parse
MaxTokens == 4

\* the kinds of token the sequences are made of: <<Type, Value>>
TokenKinds == {<<"(", "(">>, <<")", ")">>, <<"IDENTIFIER", "a">>, <<"NUMBER", "1">>}

\* one token of each other Type, as createToken makes them
LiteralKinds ==
    {<<"STRING", "hello">>, <<"NUMBER", "10">>, <<"NUMBER", "-3">>, <<"FLOAT", "2.5">>,
     <<"BOOLEAN", "true">>, <<"BOOLEAN", "false">>, <<"NIL", "nil">>, <<"IDENTIFIER", "+">>}

\* the tokens of the given kinds, on line 1, token i in column i
TokenSeq(kinds) ==
    [i \in 1..Len(kinds) |-> Token(kinds[i][1], kinds[i][2], 1, i)]

\* every sequence of up to MaxTokens brackets, identifiers and numbers, and
\* each literal alone and in a list
ParsePrograms ==
    {Tokens(TokenSeq(ks)) : ks \in UNION {[1..n -> TokenKinds] : n \in 0..MaxTokens}}
    \cup {Tokens(TokenSeq(<<k>>)) : k \in LiteralKinds}
    \cup {Tokens(TokenSeq(<<<<"(", "(">>, k, <<")", ")">>>>)) : k \in LiteralKinds}

\* the longest source text given to the tokenizer
MaxChars == 4

\* the characters of the source texts: a letter, the brackets, a blank, a
\* newline, the quote and the backslash
LexChars == {"a", "(", ")", " ", "\n", "\"", "\\"}

RECURSIVE Texts(_, _)
\* every text of up to n of the characters
Texts(chars, n) ==
    IF n = 0 THEN {""}
    ELSE LET shorter == Texts(chars, n - 1)
         IN  shorter \cup {s \o c : s \in shorter, c \in chars}

TokenizePrograms(n) == {Source(text, <<>>) : text \in Texts(LexChars, n)}

\* the longest lexeme made of LexemeChars
MaxLexeme == 3

\* the characters of the lexemes: digits, the DOT, the exponent mark, the
\* signs and a letter
LexemeChars == {"1", "2", ".", "e", "-", "+", "a"}

\* the lexemes of up to n characters, and the words createToken and
\* strconv.ParseFloat know
LexemePrograms(n) ==
    {Source(text, <<>>) : text \in (Texts(LexemeChars, n) \ {""})
                                    \cup {"true", "false", "nil", "nan", "inf", "t"}}

\* the longest text of a String value that is rendered
MaxText == 2

\* the values without a list: Integers, Strings of letters, blanks,
\* backslashes and quotes, the Booleans, Nil and Atoms
RenderLeaves(n) ==
    {LispNumber(k) : k \in {-1, 0, 12}}
    \cup {LispString(s) : s \in Texts({"a", " ", "\\", "\""}, n)}
    \cup {LispBoolean(TRUE), LispBoolean(FALSE), LispNil, LispAtom("a"), LispAtom("+")}

\* the lists of up to n of the values
ListsOf(values, n) == {LispList(es) : es \in UNION {[1..k -> values] : k \in 0..n}}

\* the text a value is rendered as, given as source text
Rendered(v) == Source(String(v), <<v>>)

\* the values rendered: the leaves, the lists of leaves and the lists of
\* one or two one-element lists
RoundTripPrograms(n) ==
    LET leaves == RenderLeaves(n)
    IN  {Rendered(v) : v \in leaves \cup ListsOf(leaves, MaxLen)
                              \cup ListsOf(ListsOf(leaves, 1), MaxLen)}

\* (defun name () 1)
DefConst(name) == Defun(name, <<>>, N(1))

\* inputs that define, redefine (also the predefined t), call and fail, at
\* the top level and inside a let
SessionPrograms ==
    {Top(<<DefConst(n)>>) : n \in {"f", "g", "t", "nil"}}
    \cup {Top(<<Call(n, <<>>)>>) : n \in {"f", "g", "t"}}
    \cup {Top(<<A(n)>>) : n \in {"f", "nil", "u"}}
    \cup {Top(<<TwoByZero>>), Top(<<DefConst("f"), DefConst("g")>>),
          Top(<<DefConst("f"), TwoByZero>>), Top(<<TwoByZero, DefConst("g")>>),
          Top(<<Let(<<<<"x", N(1)>>>>, DefConst("h"))>>),
          Top(<<Call("f", <<DefConst("g")>>)>>), Top(<<>>)}

\* the longest top-level list
MaxTop == 3

\* the expressions of the top-level lists: definitions of f and of g, calls
\* of them, a division by zero and a number
TopLevelExprs ==
    {DefConst("f"), DefConst("g"), Call("f", <<>>), Call("g", <<>>), TwoByZero, N(2)}

TopLevelPrograms(n) == {Top(es) : es \in UNION {[1..k -> TopLevelExprs] : k \in 0..n}}

\* (defun g () body)
DefG(fbody) == Defun("g", <<>>, fbody)

\* (defun f (a) (defun g () a)): the body of f defines g
DefMaker == Defun("f", <<A("a")>>, DefG(A("a")))

\* the forms whose frame is looked at, each after the top-level
\* definitions it needs: a let that defines g in its body, in a binding,
\* in a nested let, before a failing binding; a call of f at the top
\* level (also of an f whose body fails after the definition) and inside a
\* let
FrameForms(k) ==
    {<<Let(<<<<"x", N(k)>>>>, DefG(A("x")))>>,
     <<Let(<<<<"x", N(k)>>, <<"tmp", DefG(A("x"))>>>>, Call("g", <<>>))>>,
     <<Let(<<<<"x", N(k)>>>>, Let(<<<<"a", A("x")>>>>, DefG(A("a"))))>>,
     <<Let(<<<<"x", N(k)>>, <<"tmp", DefG(A("x"))>>, <<"y", TwoByZero>>>>, A("y"))>>,
     <<DefMaker, Call("f", <<N(k)>>)>>,
     <<Defun("f", <<A("a")>>, Call("+", <<DefG(A("a")), N(1)>>)), Call("f", <<N(k)>>)>>,
     <<DefMaker, Let(<<<<"x", N(k)>>>>, Call("f", <<A("x")>>))>>}

\* what is evaluated after the form: the names it bound, a call of g
FrameProbes == {A("g"), A("x"), A("a"), Call("g", <<>>)}

FramePrograms ==
    {Top(es) : es \in UNION {FrameForms(k) : k \in 0..MaxInt}}
    \cup {Top(es \o <<p>>) : es \in UNION {FrameForms(k) : k \in 0..MaxInt}, p \in FrameProbes}

Suites == {"defun", "scope", "closure", "let", "if", "cmplogic", "logic", "listeval", "list", "arith", "cmp", "eq", "atom", "arity", "abort", "parse", "cache", "lock", "tokenize", "lexeme", "roundtrip", "session", "toplevel", "frame"}

Programs(s) ==
    CASE s = "defun" -> DefunPrograms
      [] s = "scope" -> ScopePrograms
      [] s = "closure" -> ClosurePrograms
      [] s = "let" -> LetPrograms
      [] s = "if" -> IfPrograms
      [] s = "cmplogic" -> CmpLogicPrograms
      [] s = "logic" -> LogicPrograms
      [] s = "listeval" -> ListEvalPrograms
      [] s = "list" -> ListPrograms(LitSeqs)
      [] s = "arith" -> ArithPrograms
      [] s = "cmp" -> CmpPrograms
      [] s = "eq" -> EqPrograms
      [] s = "atom" -> AtomPrograms
      [] s = "arity" -> ArityPrograms
      [] s = "abort" -> AbortPrograms
      [] s = "parse" -> ParsePrograms
      [] s = "tokenize" -> TokenizePrograms(MaxChars)
      [] s = "lexeme" -> LexemePrograms(MaxLexeme)
      [] s = "roundtrip" -> RoundTripPrograms(MaxText)
      [] s = "session" -> SessionPrograms
      [] s = "frame" -> FramePrograms
      [] s = "toplevel" -> TopLevelPrograms(MaxTop)
      [] OTHER -> {}

\* suites whose sessions consist of a single input
SingleInput == {"if", "cmplogic", "logic", "listeval", "list", "arith", "cmp", "eq", "arity", "abort", "parse", "tokenize", "lexeme", "roundtrip", "toplevel", "frame"}

\* the number of inputs of a session
StepsOf(s) == IF s \in SingleInput THEN 1 ELSE MaxSteps

(***************************************************************************)
(* The session: the global environment is created once; each step gives    *)
(* one parsed input to the executor.                                       *)
(***************************************************************************)
Init ==
    /\ suite \in Suites
    /\ heap = <<initEnvironment>>
    /\ input = Top(<<>>)
    /\ results = <<>>
    /\ err = ""
    /\ log = <<>>
    /\ steps = 0
    /\ parseCache = <<>>
    /\ parseCacheLock = [readers |-> {}, writer |-> 0, waiting |-> {}]
    /\ stack = [g \in 1..MaxCallers |-> <<>>]
    /\ ret = [g \in 1..MaxCallers |-> <<>>]
    /\ arg = [g \in 1..MaxCallers |-> <<>>]

\* executor(input): evaluate, print the results or the error
Executor(expr) ==
    /\ LET st == [heap |-> heap, log |-> <<>>]
           r == ExecuteInput(expr, st)
       IN  /\ heap' = r.heap
           /\ results' = (IF r.err = "" THEN r.val.elems ELSE <<>>)
           /\ err' = r.err
           /\ log' = r.log
    /\ input' = expr
    /\ steps' = steps + 1
    /\ UNCHANGED <<suite, parseCache, parseCacheLock, stack, ret, arg>>

\* the session reads inputs until it has read StepsOf(suite) of them
Next ==
    /\ steps < StepsOf(suite)
    /\ \E expr \in Programs(suite) : Executor(expr)

Spec == Init /\ [][Next]_vars

\* the sessions that run the inputs of one suite
InitDefun == Init /\ suite = "defun"

SpecDefun == InitDefun /\ [][Next]_vars

InitScope == Init /\ suite = "scope"

SpecScope == InitScope /\ [][Next]_vars

InitClosure == Init /\ suite = "closure"

SpecClosure == InitClosure /\ [][Next]_vars

InitLet == Init /\ suite = "let"

SpecLet == InitLet /\ [][Next]_vars

InitIf == Init /\ suite = "if"

SpecIf == InitIf /\ [][Next]_vars

InitCmpLogic == Init /\ suite = "cmplogic"

SpecCmpLogic == InitCmpLogic /\ [][Next]_vars

InitLogic == Init /\ suite = "logic"

SpecLogic == InitLogic /\ [][Next]_vars

InitListEval == Init /\ suite = "listeval"

SpecListEval == InitListEval /\ [][Next]_vars

InitList == Init /\ suite = "list"

SpecList == InitList /\ [][Next]_vars

InitArith == Init /\ suite = "arith"

SpecArith == InitArith /\ [][Next]_vars

InitCmp == Init /\ suite = "cmp"

SpecCmp == InitCmp /\ [][Next]_vars

InitEq == Init /\ suite = "eq"

SpecEq == InitEq /\ [][Next]_vars

InitAtom == Init /\ suite = "atom"

SpecAtom == InitAtom /\ [][Next]_vars

InitArity == Init /\ suite = "arity"

SpecArity == InitArity /\ [][Next]_vars

InitAbort == Init /\ suite = "abort"

SpecAbort == InitAbort /\ [][Next]_vars

InitParse == Init /\ suite = "parse"

SpecParse == InitParse /\ [][Next]_vars

(***************************************************************************)
(* The goroutines calling the cached Parse.                                *)
(***************************************************************************)
\* every sequence of at most two brackets and identifiers, and the lists
\* whose tails are given again inside other lists
CacheInputs ==
    {TokenSeq(ks) : ks \in UNION {[1..n -> {<<"(", "(">>, <<")", ")">>, <<"IDENTIFIER", "a">>,
                                            <<"IDENTIFIER", "b">>}] : n \in 0..2}}
    \cup {TokenSeq(ks) : ks \in
            {<<<<"(", "(">>, <<"IDENTIFIER", "a">>, <<")", ")">>>>,
             <<<<"(", "(">>, <<"IDENTIFIER", "b">>, <<"IDENTIFIER", "a">>, <<")", ")">>>>,
             <<<<"(", "(">>, <<"IDENTIFIER", "a">>, <<"IDENTIFIER", "b">>, <<")", ")">>>>,
             <<<<"(", "(">>, <<"IDENTIFIER", "c">>, <<"IDENTIFIER", "a">>,
               <<"IDENTIFIER", "b">>, <<")", ")">>>>,
             <<<<"(", "(">>, <<"(", "(">>, <<"IDENTIFIER", "a">>, <<")", ")">>, <<")", ")">>>>,
             <<<<"(", "(">>, <<"NUMBER", "1">>, <<"STRING", "a">>>>}}

\* an atom, a list and a list that is not closed
LockInputs ==
    {TokenSeq(ks) : ks \in
        {<<<<"IDENTIFIER", "a">>>>,
         <<<<"(", "(">>, <<"IDENTIFIER", "a">>, <<")", ")">>>>,
         <<<<"(", "(">>, <<"IDENTIFIER", "a">>>>}}

ParseInputs(s) == IF s = "cache" THEN CacheInputs ELSE LockInputs

\* one goroutine calls Parse again and again, or MaxCallers of them do
CallersOf(s) == IF s = "cache" THEN 1 ELSE MaxCallers

\* the number of Parse calls made from outside in one run
CallsOf(s) == IF s = "cache" THEN MaxSteps ELSE MaxCallers

\* the frame goroutine g executes
Cur(g) == stack[g][Len(stack[g])]

At(g, pc) == Len(stack[g]) > 0 /\ Cur(g).pc = pc

\* goroutine g goes on in frame f
Goto(g, f) ==
    /\ stack' = [stack EXCEPT ![g][Len(stack[g])] = f]
    /\ UNCHANGED ret

\* the innermost call of goroutine g returns r
ReturnsTo(g, r) ==
    LET back == Return(Callers(stack[g]), r)
    IN  /\ stack' = [stack EXCEPT ![g] = back.stack]
        /\ ret' = [ret EXCEPT ![g] = back.ret]

\* Parse(tokens) is called from outside: no tokens is an error at once
ParseCall(g, tokens) ==
    /\ stack[g] = <<>>
    /\ steps < CallsOf(suite)
    /\ steps' = steps + 1
    /\ arg' = [arg EXCEPT ![g] = tokens]
    /\ IF Len(tokens) = 0
       THEN /\ ret' = [ret EXCEPT ![g] = <<ParseFail(LispError("unexpected EOF while reading"))>>]
            /\ UNCHANGED stack
       ELSE /\ ret' = [ret EXCEPT ![g] = <<>>]
            /\ stack' = [stack EXCEPT ![g] = <<Frame(tokens)>>]
    /\ UNCHANGED <<parseCache, parseCacheLock, heap, input, results, err, log, suite>>

\* parseCacheLock.RLock()
RLock(g) ==
    /\ At(g, "rlock")
    /\ parseCacheLock.writer = 0
    /\ parseCacheLock.waiting = {}
    /\ parseCacheLock' = [parseCacheLock EXCEPT !.readers = @ \cup {g}]
    /\ Goto(g, [Cur(g) EXCEPT !.pc = "lookup"])
    /\ UNCHANGED <<parseCache, arg, heap, input, results, err, log, steps, suite>>

\* cachedExpr, ok := parseCache[cacheKey]
Lookup(g) ==
    /\ At(g, "lookup")
    /\ LET f == Cur(g)
       IN  IF f.cacheKey \in DOMAIN parseCache
           THEN Goto(g, [f EXCEPT !.pc = "hit", !.result = parseCache[f.cacheKey]])
           ELSE Goto(g, [f EXCEPT !.pc = "miss"])
    /\ UNCHANGED <<parseCache, parseCacheLock, arg, heap, input, results, err, log, steps, suite>>

\* a faulty variant: the hit returns without releasing the read lock
RUnlockHitKeeps(g) ==
    /\ At(g, "hit")
    /\ ReturnsTo(g, ParseOk(Cur(g).result, <<>>))
    /\ UNCHANGED <<parseCache, parseCacheLock, arg, heap, input, results, err, log, steps, suite>>

\* the hit: parseCacheLock.RUnlock(); return cachedExpr, nil, nil
RUnlockHit(g) ==
    /\ At(g, "hit")
    /\ parseCacheLock' = [parseCacheLock EXCEPT !.readers = @ \ {g}]
    /\ ReturnsTo(g, ParseOk(Cur(g).result, <<>>))
    /\ UNCHANGED <<parseCache, arg, heap, input, results, err, log, steps, suite>>

\* the miss: parseCacheLock.RUnlock(), then the first token is taken
RUnlockMiss(g) ==
    /\ At(g, "miss")
    /\ parseCacheLock' = [parseCacheLock EXCEPT !.readers = @ \ {g}]
    /\ Goto(g, Switch(Cur(g)))
    /\ UNCHANGED <<parseCache, arg, heap, input, results, err, log, steps, suite>>

\* case OPEN_BRACKET: the loop calls Parse on the tokens left, or it ends
\* and the list is closed (or the tokens ran out, which is returned)
Loop(g) ==
    /\ At(g, "loop")
    /\ LET f == Cur(g)
           closed == CloseList(f.token, f.tokens, f.elements)
       IN  IF Len(f.tokens) > 0 /\ f.tokens[1].Type # ")"
           THEN /\ stack' = [stack EXCEPT ![g] =
                                Append(Callers(@), [f EXCEPT !.pc = "call"]) \o <<Frame(f.tokens)>>]
                /\ UNCHANGED ret
           ELSE IF closed.err # "" THEN ReturnsTo(g, closed)
           ELSE Goto(g, [f EXCEPT !.pc = "lock", !.tokens = closed.rest, !.result = closed.val])
    /\ UNCHANGED <<parseCache, parseCacheLock, arg, heap, input, results, err, log, steps, suite>>

\* parseCacheLock.Lock() is called: from now on no RLock() is granted
Lock(g) ==
    /\ At(g, "lock")
    /\ parseCacheLock' = [parseCacheLock EXCEPT !.waiting = @ \cup {g}]
    /\ Goto(g, [Cur(g) EXCEPT !.pc = "locking"])
    /\ UNCHANGED <<parseCache, arg, heap, input, results, err, log, steps, suite>>

\* parseCacheLock.Lock() returns: nobody holds the lock
LockAcquire(g) ==
    /\ At(g, "locking")
    /\ parseCacheLock.readers = {}
    /\ parseCacheLock.writer = 0
    /\ parseCacheLock' = [parseCacheLock EXCEPT !.waiting = @ \ {g}, !.writer = g]
    /\ Goto(g, [Cur(g) EXCEPT !.pc = "store"])
    /\ UNCHANGED <<parseCache, arg, heap, input, results, err, log, steps, suite>>

\* parseCache[cacheKey] = result
Store(g) ==
    /\ At(g, "store")
    /\ parseCache' = (Cur(g).cacheKey :> Cur(g).result) @@ parseCache
    /\ Goto(g, [Cur(g) EXCEPT !.pc = "unlock"])
    /\ UNCHANGED <<parseCacheLock, arg, heap, input, results, err, log, steps, suite>>

\* parseCacheLock.Unlock(); return result, tokens, nil
Unlock(g) ==
    /\ At(g, "unlock")
    /\ parseCacheLock' = [parseCacheLock EXCEPT !.writer = 0]
    /\ ReturnsTo(g, ParseOk(Cur(g).result, Cur(g).tokens))
    /\ UNCHANGED <<parseCache, arg, heap, input, results, err, log, steps, suite>>

\* one statement of one goroutine
ParseNext ==
    \E g \in 1..CallersOf(suite) :
        \/ \E tokens \in ParseInputs(suite) : ParseCall(g, tokens)
        \/ RLock(g)
        \/ Lookup(g)
        \/ RUnlockHit(g)
        \/ RUnlockMiss(g)
        \/ Loop(g)
        \/ Lock(g)
        \/ LockAcquire(g)
        \/ Store(g)
        \/ Unlock(g)

InitTokenize == Init /\ suite = "tokenize"

SpecTokenize == InitTokenize /\ [][Next]_vars

InitLexeme == Init /\ suite = "lexeme"

SpecLexeme == InitLexeme /\ [][Next]_vars

InitRoundTrip == Init /\ suite = "roundtrip"

SpecRoundTrip == InitRoundTrip /\ [][Next]_vars

InitSession == Init /\ suite = "session"

SpecSession == InitSession /\ [][Next]_vars

InitTopLevel == Init /\ suite = "toplevel"

SpecTopLevel == InitTopLevel /\ [][Next]_vars

InitFrame == Init /\ suite = "frame"

SpecFrame == InitFrame /\ [][Next]_vars

InitCache == Init /\ suite = "cache"

SpecCache == InitCache /\ [][ParseNext]_vars

InitLock == Init /\ suite = "lock"

SpecLock == InitLock /\ [][ParseNext]_vars

(***************************************************************************)
(* Reading the history.                                                    *)
(***************************************************************************)
IsForm(expr, head, nargs) ==
    /\ expr.type = "LispList"
    /\ Len(expr.elems) = nargs + 1
    /\ expr.elems[1] = LispAtom(head)

\* a defun form that passes builtinDefun's checks
IsDefun(expr) ==
    /\ IsForm(expr, "defun", 3)
    /\ expr.elems[2].type = "LispAtom"
    /\ expr.elems[3].type = "LispList"

\* the function (defun ...) creates when evaluated in environment e
DefunFunction(expr, e) ==
    LispFunction(expr.elems[2].str, expr.elems[3].elems, expr.elems[4], e)

Bound(e, name) == name \in DOMAIN heap[e]

\* the top-level input is the single expression x
InputIs(x) == input = Top(<<x>>)

(***************************************************************************)
(* C1: after (defun name (params) body) is evaluated in an environment,    *)
(* name is bound in that same environment to the new function, and defun   *)
(* returns that function; the function can call itself by name: once       *)
(* square is defined as the product of x and x, (square k) gives Integer   *)
(* k times k, and once                                                     *)
(* fact is defined recursively, (fact n) gives Integer n! for n in         *)
(* 0..MaxFact.                                                             *)
(***************************************************************************)
C1_DefunBindsAndRecurses ==
    /\ \A i \in 1..Len(log) :
         (log[i].kind = "eval" /\ IsDefun(log[i].expr)) =>
            /\ Bound(log[i].env, log[i].expr.elems[2].str)
            /\ heap[log[i].env][log[i].expr.elems[2].str]
                   = DefunFunction(log[i].expr, log[i].env)
    /\ \A i \in 1..Len(results) :
         IsDefun(input.elems[i]) => results[i] = DefunFunction(input.elems[i], GlobalEnv)
    /\ \A k \in 0..MaxSquare :
         (InputIs(Call("square", <<N(k)>>)) /\ Bound(GlobalEnv, "square")) =>
            (err = "" /\ results = <<N(k * k)>>)
    /\ \A n \in 0..MaxFact :
         (InputIs(Call("fact", <<N(n)>>)) /\ Bound(GlobalEnv, "fact")) =>
            (err = "" /\ results = <<N(Factorial(n))>>)
    /\ \A k \in 0..MaxInt :
         input = LetDefun(k) =>
            (err = "" /\ results = <<N(k + 1)>> /\ ~Bound(GlobalEnv, "addA"))

\* (fact MaxFact) has been evaluated in a session that defined fact before
C1_Witness ==
    /\ InputIs(Call("fact", <<N(MaxFact)>>))
    /\ steps = 2
    /\ results = <<N(Factorial(MaxFact))>>

\* the names of a function's parameters
ParamNames(fn) == {fn.elems[i].str : i \in 1..Len(fn.elems)}

\* the positions in the history where a user function's body starts
BodyEvents == {i \in 1..Len(log) : log[i].kind = "body"}

\* the Eval call whose callFunction made body event i: the last event
\* before i that is one level up
CallSite(i) ==
    CHOOSE j \in 1..(i - 1) :
        /\ log[j].depth = log[i].depth - 1
        /\ \A k \in (j + 1)..(i - 1) : log[k].depth >= log[i].depth

\* the Eval calls callFunction made for the arguments of body event i
ArgEvals(i) ==
    LET IsArg(e) == e.kind = "eval" /\ e.depth = log[i].depth
    IN  SelectSeq(SubSeq(log, CallSite(i) + 1, i - 1), IsArg)

(***************************************************************************)
(* C3: in a user-function call every argument expression is evaluated in   *)
(* the caller's environment, and the body is evaluated in a new            *)
(* environment: the captured environment overlaid with one binding per     *)
(* parameter.  A name bound only in the caller's local scope (by a let     *)
(* around the call, or as the caller's parameter) is unbound in the body.  *)
(***************************************************************************)
C3_CallScopes ==
    /\ \A i \in BodyEvents :
         LET b == log[i]
             site == log[CallSite(i)]
             argEvals == ArgEvals(i)
             P == ParamNames(b.expr)
         IN  /\ site.kind = "eval" /\ site.env = b.from
             /\ Len(argEvals) = Len(site.expr.elems) - 1
             /\ \A m \in 1..Len(argEvals) :
                   /\ argEvals[m].env = b.from
                   /\ argEvals[m].expr = site.expr.elems[m + 1]
             /\ log[i + 1].kind = "eval" /\ log[i + 1].env = b.env
             /\ log[i + 1].expr = b.expr.body[1] /\ log[i + 1].snap = <<b.snap[3]>>
             /\ b.env \notin {b.from, b.expr.env}
             /\ DOMAIN b.snap[3] = DOMAIN b.snap[2] \cup P
             /\ \A y \in DOMAIN b.snap[1] :
                   y \notin (DOMAIN b.snap[2] \cup P) => y \notin DOMAIN b.snap[3]
    /\ \A k \in 0..MaxInt :
         /\ (input = LetCallsFree(k) /\ Bound(GlobalEnv, "free")) =>
               (err = LispError("unbound symbol: y") /\ results = <<>>)
         /\ input = FreeInLet(k) =>
               (err = LispError("unbound symbol: y") /\ results = <<>>)
         /\ input = ParamCaller(k) =>
               (err = LispError("unbound symbol: n") /\ results = <<>>)
         /\ input = IdentInLet(k) => (err = "" /\ results[2] = N(k))
         /\ input = SecondInLet(k) => (err = "" /\ results[2] = N(k))

\* free was called from inside a let that binds y, and y was unbound there
C3_Witness ==
    /\ input = LetCallsFree(1)
    /\ BodyEvents # {}
    /\ err = LispError("unbound symbol: y")

(***************************************************************************)
(* C4: a function captures its defining environment by reference: the      *)
(* body of a call sees every binding that environment holds at call time,  *)
(* also those added after the function was created.  A lambda bound by let *)
(* calls itself through its let name, and a top-level function calls a     *)
(* function defined after it.                                              *)
(***************************************************************************)
C4_CaptureByReference ==
    /\ \A i \in BodyEvents :
         \A y \in DOMAIN log[i].snap[2] \ ParamNames(log[i].expr) :
            /\ y \in DOMAIN log[i].snap[3]
            /\ log[i].snap[3][y] = log[i].snap[2][y]
    /\ \A n \in 0..MaxFact :
         input = LetFact(n) => (err = "" /\ results = <<N(Factorial(n))>>)
    /\ \A k \in 0..MaxInt :
         /\ (input = LaterThenCall(k) /\ Bound(GlobalEnv, "callsLater")) =>
               (err = "" /\ results[2] = N(2 * k))
         /\ input = Forward(k) => (err = "" /\ results[3] = N(2 * k))

\* the let-bound lambda has computed MaxFact! by calling itself, and in
\* another session callsLater has called later, which was defined after it
C4_Witness ==
    \/ /\ input = LetFact(MaxFact)
       /\ results = <<N(Factorial(MaxFact))>>
       /\ steps = 1
    \/ /\ input = LaterThenCall(2)
       /\ steps = 2
       /\ results = <<heap[GlobalEnv]["later"], N(4)>>

\* the Eval calls made directly by the form evaluated at position j, in order
Children(j) ==
    LET Inside(k) == \A m \in (j + 1)..k : log[m].depth > log[j].depth
        last == CHOOSE k \in j..Len(log) :
                    Inside(k) /\ (k = Len(log) \/ log[k + 1].depth <= log[j].depth)
        IsChild(e) == e.kind = "eval" /\ e.depth = log[j].depth + 1
    IN  SelectSeq(SubSeq(log, j + 1, last), IsChild)

\* a let form that passes builtinLet's checks
IsLet(expr) ==
    /\ IsForm(expr, "let", 2)
    /\ expr.elems[2].type = "LispList"
    /\ \A k \in 1..Len(expr.elems[2].elems) :
          LET b == expr.elems[2].elems[k]
          IN  b.type = "LispList" /\ Len(b.elems) = 2 /\ b.elems[1].type = "LispAtom"

\* the positions in the history where such a let is evaluated
LetEvents == {j \in 1..Len(log) : log[j].kind = "eval" /\ IsLet(log[j].expr)}

(***************************************************************************)
(* C5: let binds sequentially.  The expression of the k-th binding is      *)
(* evaluated in an environment that holds the enclosing bindings and       *)
(* bindings 1..k-1 of the same let, a later binding of a name overrides an *)
(* earlier one, and the body is evaluated with all bindings in place.      *)
(***************************************************************************)
C5_LetSequential ==
    /\ \A j \in LetEvents :
         LET bindings == log[j].expr.elems[2].elems
             n == Len(bindings)
             c == Children(j)
         IN  /\ Len(c) \in 1..(n + 1)
             /\ err = "" => Len(c) = n + 1
             /\ c[1].snap = log[j].snap
             /\ \A k \in 1..Len(c) :
                   /\ c[k].env = c[1].env /\ c[k].env # log[j].env
                   /\ c[k].expr = IF k <= n THEN bindings[k].elems[2]
                                            ELSE log[j].expr.elems[3]
                   /\ k > 1 =>
                        LET key == bindings[k - 1].elems[1].str
                            before == c[k - 1].snap[1]
                            now == c[k].snap[1]
                        IN  /\ DOMAIN now = DOMAIN before \cup {key}
                            /\ \A y \in DOMAIN before \ {key} : now[y] = before[y]
    /\ \A x \in 0..MaxInt :
         /\ \A y \in 0..MaxInt :
               input = LetSum(x, y) => (err = "" /\ results = <<N(x + y)>>)
         /\ input = LetSeq(x) => (err = "" /\ results = <<N(x + 1)>>)
         /\ input = LetOverride(x) => (err = "" /\ results = <<N(x + 1)>>)
         /\ input = LetNested(x) => (err = "" /\ results = <<N(2 * x + 3)>>)
         /\ (input = LetSquare(x) /\ Bound(GlobalEnv, "square")) =>
               (err = "" /\ results = <<N(x * x)>>)

\* the second binding of a let has used the first
C5_Witness ==
    /\ input = LetSeq(1)
    /\ results = <<N(2)>>
    /\ LetEvents # {}

\* the state an input of a single-input session is evaluated in
Fresh == [heap |-> <<initEnvironment>>, log |-> <<>>]

(***************************************************************************)
(* C2: (if c a b) evaluates c exactly once; when the value of c is the     *)
(* true value, that is the Boolean true or the atom true that comparisons  *)
(* return, it evaluates and returns a and never evaluates b; otherwise it  *)
(* evaluates and returns b and never evaluates a.                          *)
(***************************************************************************)
C2_IfSelectsOnTrueValue ==
    \A c \in IfConds, p \in IfBranches :
        input = If(c, p[1], p[2]) =>
            LET rc == Eval(GlobalEnv, c, 1, Fresh)
                IsTrue == rc.val = LispBoolean(TRUE) \/ rc.val = LispAtom("true")
                chosen == IF IsTrue THEN p[1] ELSE p[2]
                rb == Eval(GlobalEnv, chosen, 1, [heap |-> rc.heap, log |-> <<>>])
                kids == Children(1)
            IN  rc.err = "" =>
                    /\ Len(kids) = 2
                    /\ kids[1].expr = c
                    /\ kids[2].expr = chosen
                    /\ err = rb.err
                    /\ heap = rb.heap
                    /\ rb.err = "" => results = <<rb.val>>

(***************************************************************************)
(* C6: the logical operators treat the result of a comparison as its truth *)
(* value.  For comparisons c1..cn on integers, the and of them is true     *)
(* exactly when every ci holds, the or of them is true exactly when some   *)
(* ci holds, the not of c is true exactly when c does not hold; the        *)
(* README's let with a = 3 selects the first branch of its if, and with    *)
(* a = 6 the second.                                                       *)
(***************************************************************************)
C6_LogicOnComparisons ==
    LET CmpHolds(c) ==
            IF c.elems[1].str = "=" THEN c.elems[2].num = c.elems[3].num
            ELSE Holds(c.elems[1].str, c.elems[2].num, c.elems[3].num)
        IsTrue == results = <<LispBoolean(TRUE)>>
    IN  /\ \A cs \in CmpArgs :
             /\ input = Top(<<Call("and", cs)>>) =>
                   /\ err = ""
                   /\ IsTrue <=> \A i \in 1..Len(cs) : CmpHolds(cs[i])
             /\ input = Top(<<Call("or", cs)>>) =>
                   /\ err = ""
                   /\ IsTrue <=> \E i \in 1..Len(cs) : CmpHolds(cs[i])
        /\ \A c \in Comparisons :
             input = Top(<<Call("not", <<c>>)>>) =>
                   /\ err = ""
                   /\ IsTrue <=> ~CmpHolds(c)
        /\ input = LetIfAnd(3) => (err = "" /\ results = <<N(1)>>)
        /\ input = LetIfAnd(6) => (err = "" /\ results = <<N(2)>>)

(***************************************************************************)
(* C7: and evaluates its arguments left to right and returns false at the  *)
(* first argument whose value is false, without evaluating any later       *)
(* argument (an error or a defun in a later argument does not happen); or  *)
(* does the same with the first true argument and returns true; when no    *)
(* argument triggers the short-circuit every argument is evaluated exactly *)
(* once, and returns true and or returns false, also for zero arguments.   *)
(* The false and the true value are the Boolean or the atom of that name   *)
(* that comparisons return.                                                *)
(***************************************************************************)
C7_ShortCircuit ==
    \A f \in {"and", "or"}, as \in LogicArgLists :
        input = Top(<<Call(f, as)>>) =>
            LET n == Len(as)
                Arg(i) == Eval(GlobalEnv, as[i], 1, Fresh)
                Trigger == IF f = "and" THEN {LispBoolean(FALSE), LispAtom("false")}
                                        ELSE {LispBoolean(TRUE), LispAtom("true")}
                Stops(i) == Arg(i).err = "" /\ Arg(i).val \in Trigger
                Stopping == {k \in 1..n : Stops(k)}
                last == IF Stopping = {} THEN n
                        ELSE CHOOSE k \in Stopping : \A i \in Stopping : k <= i
                kids == Children(1)
            IN  (\A i \in 1..last : Arg(i).err = "") =>
                    /\ err = ""
                    /\ results = <<LispBoolean(IF Stopping = {} THEN f = "and"
                                                                ELSE f = "or")>>
                    /\ Len(kids) = last
                    /\ \A i \in 1..last : kids[i].expr = as[i]
                    /\ Bound(GlobalEnv, "mark") <=> \E i \in 1..last : as[i] = DefMark

(***************************************************************************)
(* C8: the list form evaluates each argument expression in the current     *)
(* environment and returns a new list of the resulting values in order:    *)
(* with x bound to k, the list of a sum of i and j and of x is the list of *)
(* the integers i + j and k, not the list of the unevaluated expressions.  *)
(***************************************************************************)
C8_ListEvaluatesArguments ==
    \A k \in 0..MaxInt, es \in ListArgLists :
        input = LetList(k, es) =>
            LET current == [heap |-> <<initEnvironment @@ ("x" :> N(k))>>, log |-> <<>>]
                ValueOf(e) == Eval(GlobalEnv, e, 1, current).val
            IN  /\ err = ""
                /\ results = <<LispList([i \in 1..Len(es) |-> ValueOf(es[i])])>>

C10_CarCdrFailOnEmpty ==
    \A f \in {"car", "cdr"}, e \in EmptyLists :
        input = On(f, e) => (err # "" /\ results = <<>>)

\* an input ( (op a1 ... an) ) of numeric literals on which op is defined:
\* - and / have an argument, / has no zero divisor
IsArith(e) ==
    /\ e.type = "LispList" /\ Len(e.elems) >= 1
    /\ e.elems[1] \in {A("+"), A("-"), A("*"), A("/")}
    /\ \A i \in 2..Len(e.elems) : IsNumeric(e.elems[i])
    /\ e.elems[1] \in {A("-"), A("/")} => Len(e.elems) >= 2
    /\ e.elems[1] = A("/") => \A i \in 3..Len(e.elems) : e.elems[i].num # 0

\* the exact value <<n, d>> of folding op left to right over the
\* operands i.. of e, starting from acc
RECURSIVE ExactFold(_, _, _, _)
ExactFold(op, e, i, acc) ==
    IF i > Len(e.elems) THEN acc
    ELSE LET n == e.elems[i].num
             d == e.elems[i].den
             next == CASE op = "+" -> Rat(acc[1] * d + n * acc[2], acc[2] * d)
                       [] op = "-" -> Rat(acc[1] * d - n * acc[2], acc[2] * d)
                       [] op = "*" -> Rat(acc[1] * n, acc[2] * d)
                       [] op = "/" -> Rat(acc[1] * d, acc[2] * n)
         IN  ExactFold(op, e, i + 1, next)

\* the exact value of ( op a1 ... an )
ExactValue(e) ==
    LET op == e.elems[1].str
    IN  CASE op = "+" -> ExactFold(op, e, 2, <<0, 1>>)
          [] op = "*" -> ExactFold(op, e, 2, <<1, 1>>)
          [] OTHER -> ExactFold(op, e, 3, <<e.elems[2].num, e.elems[2].den>>)

C12_DivisionByZero ==
    LET DivZero == err \in {"division by zero", LispError("division by zero")}
        Numeric(e) == \A i \in 2..Len(e.elems) : IsNumeric(e.elems[i])
        Decides(zero) ==
            /\ zero => (DivZero /\ results = <<>> /\ heap[GlobalEnv] = initEnvironment)
            /\ ~zero => ~DivZero
        Holds1(e) ==
            /\ (e.type = "LispList" /\ Len(e.elems) >= 2 /\ e.elems[1] = A("/")
                    /\ Numeric(e)) =>
                  Decides(\E i \in 3..Len(e.elems) : e.elems[i].num = 0)
            /\ (IsForm(e, "%", 2) /\ Numeric(e)) => Decides(e.elems[3].num = 0)
    IN  /\ Len(input.elems) = 1 => Holds1(input.elems[1])
        /\ input = Top(<<Call("/", <<N(0), N(5)>>)>>) => (err = "" /\ results = <<N(0)>>)

C14_FloatComparisons ==
    LET Less(a, b) == a.num * b.den < b.num * a.den
        Related(op, a, b) ==
            CASE op = "<" -> Less(a, b)
              [] op = "<=" -> ~Less(b, a)
              [] op = ">" -> Less(b, a)
              [] op = ">=" -> ~Less(a, b)
        Holds1(e) ==
            \A op \in OrderOps :
                IsForm(e, op, 2) =>
                    IF IsNumeric(e.elems[2]) /\ IsNumeric(e.elems[3])
                    THEN /\ err = ""
                         /\ results = <<LispAtom(IF Related(op, e.elems[2], e.elems[3])
                                                 THEN "true" ELSE "false")>>
                    ELSE err # ""
    IN  Len(input.elems) = 1 => Holds1(input.elems[1])

(***************************************************************************)
(* C15: the equality of two Integers is true exactly when they are the     *)
(* same number; on any other pair of operand values it does not fail but   *)
(* is true exactly when the two values are structurally or textually the   *)
(* same, so it is reflexive and symmetric on all values and never equates  *)
(* a String with a non-String of the same spelling.                        *)
(***************************************************************************)
C15_Equality ==
    (Len(input.elems) = 1 /\ IsForm(input.elems[1], "=", 2)) =>
        LET a == input.elems[1].elems[2]
            b == input.elems[1].elems[3]
            va == Eval(GlobalEnv, a, 2, Fresh).val
            vb == Eval(GlobalEnv, b, 2, Fresh).val
            swapped == Execute(Eq(b, a), Fresh)
            IsTrue == results = <<LispAtom("true")>>
        IN  /\ err = ""
            /\ IsTrue \/ results = <<LispAtom("false")>>
            /\ (va.type = "LispNumber" /\ vb.type = "LispNumber") =>
                  (IsTrue <=> va.num = vb.num)
            /\ ~(va.type = "LispNumber" /\ vb.type = "LispNumber") =>
                  (IsTrue <=> String(va) = String(vb))
            /\ va = vb => IsTrue
            /\ swapped.err = "" /\ swapped.val.elems = results
            /\ (va.type = "LispString") # (vb.type = "LispString") => ~IsTrue

\* a String and the atom of the same spelling have been found different
C15_Witness ==
    /\ input = Eq(LispString("true"), Call("<", <<N(0), N(1)>>))
    /\ err = ""
    /\ results = <<LispAtom("false")>>

\* the evaluations of an atom in the history
AtomEvents == {i \in 1..Len(log) : log[i].kind = "eval" /\ log[i].expr.type = "LispAtom"}

(***************************************************************************)
(* C16: evaluating an atom returns the value the environment binds to it;  *)
(* an atom with no binding yields the unbound-symbol error as an error     *)
(* value, and that error is what an enclosing expression such as           *)
(* (+ x 1) reports; the environment is left unchanged.                     *)
(***************************************************************************)
C16_AtomLookup ==
    /\ \A i \in AtomEvents :
         LET name == log[i].expr.str
             bindings == log[i].snap[1]
         IN  /\ name \notin DOMAIN bindings =>
                   /\ err = LispError("unbound symbol: " \o name)
                   /\ results = <<>>
                   /\ i = Len(log)
             /\ i = Len(log) => heap[log[i].env] = bindings
             /\ (i < Len(log) /\ log[i + 1].env = log[i].env) =>
                   log[i + 1].snap[1] = bindings
    /\ \A n \in AtomNames :
         LET bindings == log[1].snap[1]
         IN  /\ (InputIs(A(n)) /\ n \in DOMAIN bindings) =>
                   (err = "" /\ results = <<bindings[n]>> /\ heap[GlobalEnv] = bindings)
             /\ (InputIs(A(n)) /\ n \notin DOMAIN bindings) =>
                   (err = LispError("unbound symbol: " \o n) /\ heap[GlobalEnv] = bindings)
             /\ (InputIs(Call("+", <<A(n), N(1)>>)) /\ n \notin DOMAIN bindings) =>
                   (err = LispError("unbound symbol: " \o n) /\ heap[GlobalEnv] = bindings)
             /\ \A k \in 0..MaxInt :
                  /\ InputIs(LetX(k, A("x"))) => (err = "" /\ results = <<N(k)>>)
                  /\ InputIs(LetX(k, Call("+", <<A("x"), N(1)>>))) =>
                        (err = "" /\ results = <<N(k + 1)>>)
                  /\ (InputIs(LetX(k, Call("+", <<A("y"), N(1)>>))) /\ "y" \notin DOMAIN bindings) =>
                        (err = LispError("unbound symbol: y") /\ heap[GlobalEnv] = bindings)

\* (+ x 1) has reported that x is unbound
C16_Witness ==
    /\ InputIs(Call("+", <<A("x"), N(1)>>))
    /\ err = LispError("unbound symbol: x")
    /\ results = <<>>
    /\ heap = <<initEnvironment>>

\* the input defines f by defun and calls it / binds f by let and calls it
IsDefunCall == Len(input.elems) = 2 /\ IsDefun(input.elems[1])

IsLetCall == Len(input.elems) = 1 /\ IsForm(input.elems[1], "let", 2)

\* the call (f args) of the input and the parameters of f
ArityCall == IF IsDefunCall THEN input.elems[2] ELSE input.elems[1].elems[3]

ArityLambdaParams ==
    IF IsDefunCall THEN input.elems[1].elems[3].elems
    ELSE input.elems[1].elems[2].elems[1].elems[2].elems[2].elems

(***************************************************************************)
(* C17: a call of a user function with a number of arguments different    *)
(* from its number of parameters fails with the arity error, and the       *)
(* check happens before any argument is evaluated: no argument is          *)
(* evaluated, a defun among the arguments binds nothing, no body is        *)
(* entered and the caller's environment is unchanged.  A call with the     *)
(* right number of arguments does not fail with the arity error and        *)
(* evaluates its first argument.                                           *)
(***************************************************************************)
C17_ArityBeforeArguments ==
    (IsDefunCall \/ IsLetCall) =>
        LET args == Tail(ArityCall.elems)
            last == log[Len(log)]
            arity == "wrong number of arguments to f"
        IN  /\ Len(args) # Len(ArityLambdaParams) =>
                  /\ err = arity
                  /\ results = <<>>
                  /\ last.kind = "eval" /\ last.expr = ArityCall
                  /\ heap[last.env] = last.snap[1]
                  /\ BodyEvents = {}
                  /\ ~Bound(GlobalEnv, "mark")
                  /\ \A e \in 1..Len(heap) : "mark" \notin DOMAIN heap[e]
            /\ Len(args) = Len(ArityLambdaParams) =>
                  /\ err # arity
                  /\ Len(args) > 0 =>
                        (\E i \in 2..Len(log) :
                            /\ log[i].expr = args[1]
                            /\ log[i - 1].expr = ArityCall)

\* f of one parameter was called with a defun and a second argument: the
\* call failed and the defun was not evaluated
C17_Witness ==
    /\ input = DefunCall(1, <<DefMark, N(0)>>)
    /\ err = "wrong number of arguments to f"
    /\ ~Bound(GlobalEnv, "mark")
    /\ Bound(GlobalEnv, "f")

\* the leaves whose evaluation fails, and the error each fails with
FailingLeaf == {A("boom1"), A("boom2"), TwoByZero}

LeafError(l) ==
    IF l = TwoByZero THEN "division by zero" ELSE LispError("unbound symbol: " \o l.str)

RECURSIVE Evaluated(_)
RECURSIVE EvaluatedAll(_, _)
\* the leaves a form evaluates, in evaluation order, as long as none fails:
\* list and defun evaluate none of their arguments, print only the first, if
\* (on a condition that is a number) the condition and the third argument,
\* let the binding expression and the body, every other form each argument
Evaluated(e) ==
    IF e \in AbortLeaf THEN <<e>>
    ELSE LET head == e.elems[1].str
             args == Tail(e.elems)
         IN  CASE head \in {"list", "defun"} -> <<>>
               [] head = "print" -> Evaluated(args[1])
               [] head = "if" -> Evaluated(args[1]) \o Evaluated(args[3])
               [] head = "let" -> Evaluated(args[1].elems[1].elems[2]) \o Evaluated(args[2])
               [] OTHER -> EvaluatedAll(args, 1)

EvaluatedAll(es, i) ==
    IF i > Len(es) THEN <<>> ELSE Evaluated(es[i]) \o EvaluatedAll(es, i + 1)

\* the index of the first failing leaf of a sequence of leaves, 0 if none
FirstFailure(ls) ==
    IF \E i \in 1..Len(ls) : ls[i] \in FailingLeaf
    THEN CHOOSE i \in 1..Len(ls) :
            /\ ls[i] \in FailingLeaf
            /\ \A j \in 1..(i - 1) : ls[j] \notin FailingLeaf
    ELSE 0

\* the leaves evaluated according to the history, in order
LeafEvents ==
    LET Idx == {i \in 1..Len(log) : log[i].kind = "eval" /\ log[i].expr \in AbortLeaf}
        Nth[k \in 1..Cardinality(Idx)] ==
            CHOOSE i \in Idx : Cardinality({j \in Idx : j < i}) = k - 1
    IN  [k \in 1..Cardinality(Idx) |-> log[Nth[k]].expr]

(***************************************************************************)
(* C18: when the evaluation of a sub-expression that a form evaluates      *)
(* fails, the enclosing builtin, special form or function call returns     *)
(* that same error and no value, and evaluates no further argument: the    *)
(* error reported for the input is that of the first failing leaf in       *)
(* left-to-right evaluation order at any depth, the leaves evaluated are   *)
(* exactly those up to it, and nothing is evaluated after it.              *)
(***************************************************************************)
C18_FirstErrorAborts ==
    suite = "abort" /\ steps > 0 =>
        LET leaves == EvaluatedAll(input.elems, 1)
            k == FirstFailure(leaves)
        IN  /\ k > 0 =>
                 /\ err = LeafError(leaves[k])
                 /\ results = <<>>
                 /\ LeafEvents = SubSeq(leaves, 1, k)
                 /\ LET last == log[Len(log)].expr
                    IN  IF leaves[k] = TwoByZero THEN last = N(0) ELSE last = leaves[k]
            /\ k = 0 =>
                 /\ err \notin {LeafError(l) : l \in FailingLeaf}
                 /\ LeafEvents = leaves

\* the second argument of a sum nested in the first argument failed, and
\* the unbound symbol that follows it was never evaluated
C18_Witness ==
    /\ InputIs(Call("=", <<Call("+", <<N(1), TwoByZero>>), A("boom2")>>))
    /\ err = "division by zero"
    /\ results = <<>>
    /\ LeafEvents = <<N(1), TwoByZero>>

\* the nesting depth after the first k tokens of ts
Depth(ts, k) ==
    Cardinality({i \in 1..k : ts[i].Type = "("})
        - Cardinality({i \in 1..k : ts[i].Type = ")"})

\* ts starts a list that is still open when the tokens run out
Unclosed(ts) ==
    /\ Len(ts) > 0
    /\ ts[1].Type = "("
    /\ \A k \in 1..Len(ts) : Depth(ts, k) > 0

\* the first expression of ts is complete
Complete(ts) ==
    /\ Len(ts) > 0
    /\ \/ ts[1].Type \notin {"(", ")"}
       \/ ts[1].Type = "(" /\ \E k \in 1..Len(ts) : Depth(ts, k) = 0

\* the column of the innermost list of ts that is never closed
InnermostOpen(ts) ==
    CHOOSE j \in 1..Len(ts) :
        /\ ts[j].Type = "("
        /\ \A k \in j..Len(ts) : Depth(ts, k) >= Depth(ts, j)
        /\ \A i \in (j + 1)..Len(ts) :
              ts[i].Type = "(" => \E k \in i..Len(ts) : Depth(ts, k) < Depth(ts, i)

\* Parse returned a tree
Parsed == Len(log) > 0 /\ log[1].kind = "parse"

(***************************************************************************)
(* C19: Parse fails with the unexpected-EOF error and returns no tree      *)
(* exactly when the token sequence is empty or a list opened at any        *)
(* nesting depth is not closed before the tokens run out (the error then   *)
(* carries the position of the innermost such list); for every token       *)
(* sequence whose first expression is complete it succeeds.                *)
(***************************************************************************)
C19_UnexpectedEOF ==
    input.type = "Tokens" =>
        LET ts == input.elems
            msg == "unexpected EOF while reading"
            eof == \E l \in 0..1, c \in 0..Len(ts) : err = LispErrorAt(l, c, msg)
        IN  /\ eof <=> (Len(ts) = 0 \/ Unclosed(ts))
            /\ eof => (~Parsed /\ results = <<>> /\ log = <<>> /\ heap = <<initEnvironment>>)
            /\ Len(ts) = 0 => err = LispError(msg)
            /\ Unclosed(ts) => err = LispErrorAt(1, InnermostOpen(ts), msg)
            /\ Complete(ts) => (Parsed /\ log[1].expr = Parse(ts).val /\ Parse(ts).err = "")

\* of two lists opened the inner one was closed and the outer one was not
C19_Witness ==
    /\ input = Tokens(TokenSeq(<<<<"(", "(">>, <<"(", "(">>, <<"NUMBER", "1">>, <<")", ")">>>>))
    /\ err = LispErrorAt(1, 1, "unexpected EOF while reading")
    /\ log = <<>>

(***************************************************************************)
(* C20: Parse fails with an unexpected-close-paren error, returning no     *)
(* tree, when the first token of the sequence it is given is a close       *)
(* paren; a close paren is never turned into an atom.                      *)
(***************************************************************************)
C20_CloseParenRejected ==
    /\ (input.type = "Tokens" /\ Len(input.elems) > 0 /\ input.elems[1].Type = ")") =>
          (err # "" /\ ~Parsed /\ results = <<>> /\ log = <<>>)
    /\ \A i \in 1..Len(log) : log[i].expr # LispAtom(")")

(***************************************************************************)
(* C21: Parse is a pure function of its tokens.  Whatever calls were made  *)
(* before, a call of the cached Parse returns the tree, the remaining      *)
(* tokens (the tokens after the first complete expression) and the error   *)
(* outcome that Parse without the cache returns for the same tokens.       *)
(***************************************************************************)
C21_ParseIsPure ==
    suite = "cache" =>
        \A g \in 1..CallersOf(suite) : ret[g] # <<>> => ret[g][1] = Parse(arg[g])

(***************************************************************************)
(* Reading the tokens of the input.                                        *)
(***************************************************************************)
\* the input was given as source text and has been executed
Tokenized == suite = "tokenize" /\ steps > 0

RECURSIVE Words(_, _, _)
\* the texts a source text without quotes consists of: the brackets, and
\* the longest runs of other characters between blanks and brackets
Words(text, word, acc) ==
    LET flushed == IF word = "" THEN acc ELSE Append(acc, word)
    IN  IF Len(text) = 0 THEN flushed
        ELSE IF IsSpace(Head(text)) THEN Words(Tail(text), "", flushed)
        ELSE IF Head(text) \in {"(", ")"} THEN Words(Tail(text), "", Append(flushed, Head(text)))
        ELSE Words(Tail(text), word \o Head(text), acc)

RECURSIVE Stripped(_)
\* the text with its blanks and newlines removed
Stripped(text) ==
    IF Len(text) = 0 THEN ""
    ELSE IF IsSpace(Head(text)) THEN Stripped(Tail(text))
    ELSE Head(text) \o Stripped(Tail(text))

RECURSIVE Joined(_, _)
\* the texts of the tokens from token i on, one after the other
Joined(ts, i) == IF i > Len(ts) THEN "" ELSE ts[i].Value \o Joined(ts, i + 1)

(***************************************************************************)
(* C22: for a source text without quotes the tokens are, in source order,  *)
(* the brackets (each a token of its own, of the bracket's Type) and the   *)
(* longest runs of other characters between blanks and brackets, so that   *)
(* no token holds a blank or a newline and a bracket ends the token before *)
(* it; without backslashes either, the texts of the tokens put together    *)
(* are the source text with its blanks and newlines removed.  For every    *)
(* source text Tokenize returns a sequence of at most as many tokens as    *)
(* the text has characters.                                                *)
(***************************************************************************)
C22_TokensOutsideStrings ==
    Tokenized =>
        LET text == input.str
            ts == Tokenize(text)
        IN  /\ Len(ts) <= Len(text)
            /\ ~Contains(text, "\"") =>
                  /\ [i \in 1..Len(ts) |-> ts[i].Value] = Words(text, "", <<>>)
                  /\ \A i \in 1..Len(ts) :
                        /\ \A c \in {" ", "\n"} : ~Contains(ts[i].Value, c)
                        /\ ts[i].Value \in {"(", ")"} <=> ts[i].Type \in {"(", ")"}
                        /\ ts[i].Type \in {"(", ")"} => ts[i].Type = ts[i].Value
                        /\ \A c \in {"(", ")"} : Contains(ts[i].Value, c) => ts[i].Value = c
                  /\ ~Contains(text, "\\") => Joined(ts, 1) = Stripped(text)

\* the text aa( has been tokenized: the tokens aa and (
C22_Witness ==
    /\ Tokenized
    /\ input.str = "aa("
    /\ [i \in 1..2 |-> Tokenize(input.str)[i].Value] = <<"aa", "(">>

RECURSIVE ClosingQuote(_, _)
\* the position of the first quote of the text from position i on that no
\* backslash escapes (a backslash escapes the character after it), 0 if
\* there is none
ClosingQuote(text, i) ==
    IF i > Len(text) THEN 0
    ELSE IF SubSeq(text, i, i) = "\\" THEN ClosingQuote(text, i + 2)
    ELSE IF SubSeq(text, i, i) = "\"" THEN i
    ELSE ClosingQuote(text, i + 1)

(***************************************************************************)
(* C23: in a source text that begins with a quote, the string literal ends *)
(* at the first later quote that no backslash escapes, whatever characters *)
(* were escaped before it: the first token is that STRING, and the text   *)
(* after the closing quote (taken here without further quotes) gives the   *)
(* tokens it gives outside a string.                                       *)
(***************************************************************************)
C23_EscapeOneCharacter ==
    Tokenized =>
        LET text == input.str
            close == ClosingQuote(text, 2)
            rest == SubSeq(text, close + 1, Len(text))
            ts == Tokenize(text)
        IN  (Len(text) > 0 /\ Head(text) = "\"" /\ close > 0 /\ ~Contains(rest, "\"")) =>
                /\ Len(ts) > 0
                /\ ts[1].Type = "STRING"
                /\ [i \in 1..(Len(ts) - 1) |-> ts[i + 1].Value] = Words(rest, "", <<>>)

(***************************************************************************)
(* C24: a source text that is one lexeme becomes the value of its class:   *)
(* true and false the Boolean, nil Nil; a lexeme the numeric parse accepts *)
(* a Float when it contains the DOT and otherwise the Integer of the       *)
(* number it denotes (digits times ten to the exponent, with its sign);    *)
(* any other lexeme the Atom of that name.                                 *)
(***************************************************************************)
C24_LexemeValues ==
    (suite = "lexeme" /\ steps > 0) =>
        LET text == input.str
            p == Parse(Tokenize(text))
            f == FloatParts(text)
            digits == AtoiNat(f.whole, 0)
        IN  /\ p.err = ""
            /\ CASE text \in {"true", "false"} -> p.val = LispBoolean(text = "true")
                 [] text = "nil" -> p.val = LispNil
                 [] f.ok /\ Contains(text, ".") -> p.val.type = "LispFloat"
                 [] f.ok /\ ~Contains(text, ".") ->
                      /\ p.val.type = "LispNumber"
                      /\ (~f.special /\ f.exp >= 0) =>
                            p.val.num = (IF f.neg THEN -digits ELSE digits) * Pow10(f.exp)
                 [] OTHER -> p.val = LispAtom(text)

(***************************************************************************)
(* C25: round trip.  For a value built from Integers, Strings, Booleans,   *)
(* Nil, Atoms and lists of these, the tokens of its rendering parse        *)
(* without error, Parse leaves no token, and the tree is the value.        *)
(***************************************************************************)
C25_RoundTrip ==
    (suite = "roundtrip" /\ steps > 0) =>
        LET v == input.elems[1]
            p == Parse(Tokenize(String(v)))
        IN  /\ input.str = String(v)
            /\ p.err = ""
            /\ p.rest = <<>>
            /\ p.val = v

(***************************************************************************)
(* C26: the global environment initially binds t and true to the Boolean   *)
(* true, false to the Boolean false and nil to Nil, and no step of a       *)
(* session, whether its input succeeds or fails, removes a name from it.   *)
(***************************************************************************)
C26_GlobalOnlyGrows ==
    /\ heap[GlobalEnv] = [n \in {"t", "true", "false", "nil"} |->
                             CASE n \in {"t", "true"} -> LispBoolean(TRUE)
                               [] n = "false" -> LispBoolean(FALSE)
                               [] n = "nil" -> LispNil]
    /\ [][DOMAIN heap[GlobalEnv] \subseteq DOMAIN heap'[GlobalEnv]]_vars

\* after a definition of f, an input that defined g and then failed: the
\* global environment binds the initial names, f and g
C26_Witness ==
    /\ suite = "session"
    /\ steps = 2
    /\ err # ""
    /\ DOMAIN heap[GlobalEnv] = {"t", "true", "false", "nil", "f", "g"}

(***************************************************************************)
(* Reading a top-level list of definitions, calls, a division by zero and  *)
(* numbers.                                                                *)
(***************************************************************************)
\* the names the top-level lists define and call
TopNames == {"f", "g"}

\* expression i of the list fails where it stands: it divides by zero, or
\* it calls a function that no expression before it defined
FailsAt(es, i) ==
    \/ es[i] = TwoByZero
    \/ \E n \in TopNames :
          es[i] = Call(n, <<>>) /\ \A j \in 1..(i - 1) : es[j] # DefConst(n)

\* the first expression of the list that fails, 0 if none does
FirstFailing(es) ==
    IF \E i \in 1..Len(es) : FailsAt(es, i)
    THEN CHOOSE i \in 1..Len(es) : FailsAt(es, i) /\ \A j \in 1..(i - 1) : ~FailsAt(es, j)
    ELSE 0

\* the result of expression e of the list, when it succeeds
TopResult(e) ==
    CASE e = N(2) -> N(2)
      [] \E n \in TopNames : e = Call(n, <<>>) -> N(1)
      [] OTHER -> LispFunction(e.elems[2].str, <<>>, N(1), GlobalEnv)

\* the error of expression e of the list, when it fails
TopError(e) ==
    IF e = TwoByZero THEN "division by zero" ELSE "undefined function: " \o e.elems[1].str

\* the expressions evaluated at the top level, in the order of the calls
TopEvaluated ==
    LET IsTop(ev) == ev.kind = "eval" /\ ev.depth = 0
        evs == SelectSeq(log, IsTop)
    IN  [i \in 1..Len(evs) |-> evs[i].expr]

(***************************************************************************)
(* C27: the expressions of the top-level list are evaluated in order in    *)
(* the global environment, a definition being visible to the expressions   *)
(* after it.  When none fails there is one result per expression, in       *)
(* source order.  When expression k is the first to fail, its error is     *)
(* returned with no result at all, the expressions evaluated are exactly   *)
(* the first k, and the global environment binds exactly the initial names *)
(* and the names defined by the expressions before k.                      *)
(***************************************************************************)
C27_TopLevelSequence ==
    (suite = "toplevel" /\ steps > 0) =>
        LET es == input.elems
            k == FirstFailing(es)
            last == IF k = 0 THEN Len(es) ELSE k
        IN  /\ TopEvaluated = SubSeq(es, 1, last)
            /\ \A i \in 1..Len(log) : log[i].kind = "eval" /\ log[i].depth = 0 =>
                                          log[i].env = GlobalEnv
            /\ DOMAIN heap[GlobalEnv] =
                   DOMAIN initEnvironment
                   \cup {n \in TopNames : \E j \in 1..(last - 1) : es[j] = DefConst(n)}
                   \cup {n \in TopNames : k = 0 /\ last > 0 /\ es[last] = DefConst(n)}
            /\ IF k = 0
               THEN /\ err = ""
                    /\ results = [i \in 1..Len(es) |-> TopResult(es[i])]
               ELSE /\ err = TopError(es[k])
                    /\ results = <<>>

\* (defun f () 1), a division by zero, (defun g () 1): the error, no
\* result, f is defined and g is not
C27_Witness ==
    /\ suite = "toplevel"
    /\ steps > 0
    /\ input = Top(<<DefConst("f"), TwoByZero, DefConst("g")>>)
    /\ err = "division by zero"
    /\ results = <<>>
    /\ "f" \in DOMAIN heap[GlobalEnv]
    /\ "g" \notin DOMAIN heap[GlobalEnv]

(***************************************************************************)
(* Reading the frames of the history.                                      *)
(***************************************************************************)
\* environment e reads as `contents` the next time after event i that an
\* expression is evaluated in it, and at the end if none is.  (Nothing is
\* written to an environment but by an expression evaluated in it, or to a
\* new environment by the let or the call that made it.)
StillReads(i, e, contents) ==
    LET later == {j \in (i + 1)..Len(log) : log[j].kind = "eval" /\ log[j].env = e}
    IN  IF later = {} THEN heap[e] = contents
        ELSE log[CHOOSE j \in later : \A l \in later : j <= l].snap[1] = contents

\* the names the top-level expressions of the input define
TopDefined == {input.elems[i].elems[2].str : i \in {j \in 1..Len(input.elems) : IsDefun(input.elems[j])}}

(***************************************************************************)
(* C28: a let form leaves the environment it is evaluated in as it found   *)
(* it, and the body of a called user function leaves the caller's          *)
(* environment and the function's captured environment as they were when   *)
(* the body began, also when the let bindings, the let body or the         *)
(* function body contain defun and when the evaluation fails.  What they   *)
(* bound is gone afterwards: the global environment binds the initial      *)
(* names and the functions defined at the top level, nothing else.         *)
(***************************************************************************)
C28_FramesAreLocal ==
    (suite = "frame" /\ steps > 0) =>
        /\ \A i \in LetEvents : StillReads(i, log[i].env, log[i].snap[1])
        /\ \A i \in BodyEvents :
              /\ log[i].env \notin {log[i].from, log[i].expr.env}
              /\ StillReads(i, log[i].from, log[i].snap[1])
              /\ StillReads(i, log[i].expr.env, log[i].snap[2])
        /\ DOMAIN heap[GlobalEnv] = DOMAIN initEnvironment \cup TopDefined

\* f, whose body defines g, was called inside a let and then g was called
\* at the top level: g is undefined there
C28_Witness ==
    /\ suite = "frame"
    /\ steps > 0
    /\ Len(input.elems) = 3
    /\ input.elems[1] = DefMaker
    /\ IsLet(input.elems[2])
    /\ input.elems[3] = Call("g", <<>>)
    /\ BodyEvents # {}
    /\ err = "undefined function: g"

(***************************************************************************)
(* Reading the positions of the source text.                               *)
(***************************************************************************)
\* the line of character i of the text: one more than the newlines before it
LineOf(text, i) == 1 + Cardinality({j \in 1..(i - 1) : SubSeq(text, j, j) = "\n"})

\* the column of character i of the text: its distance from the last
\* newline before it, from the start of the text if there is none
ColumnOf(text, i) ==
    LET breaks == {j \in 1..(i - 1) : SubSeq(text, j, j) = "\n"}
    IN  i - (IF breaks = {} THEN 0 ELSE CHOOSE j \in breaks : \A l \in breaks : l <= j)

\* token tk begins at character i of the text: a string literal after its
\* opening quote, any other token with its own text
BeginsAt(text, tk, i) ==
    IF tk.Type = "STRING" THEN i > 1 /\ SubSeq(text, i - 1, i - 1) = "\""
    ELSE SubSeq(text, i, i + Len(tk.Value) - 1) = tk.Value

(***************************************************************************)
(* C29: every token of every source text, string literals that contain a   *)
(* newline included, has a line of at least 1 and a column of at least 1,  *)
(* which are the line and the column of a character of the text the token  *)
(* begins at (for a string literal the character after its opening quote), *)
(* and the tokens are in non-decreasing order of (line, column).           *)
(***************************************************************************)
C29_TokenPositions ==
    Tokenized =>
        LET text == input.str
            ts == Tokenize(text)
        IN  /\ \A k \in 1..Len(ts) :
                  /\ ts[k].Line >= 1
                  /\ ts[k].Column >= 1
                  /\ \E i \in 1..Len(text) :
                        /\ BeginsAt(text, ts[k], i)
                        /\ ts[k].Line = LineOf(text, i)
                        /\ ts[k].Column = ColumnOf(text, i)
            /\ \A k \in 1..(Len(ts) - 1) :
                  \/ ts[k].Line < ts[k + 1].Line
                  \/ ts[k].Line = ts[k + 1].Line /\ ts[k].Column <= ts[k + 1].Column

(***************************************************************************)
(* Reading the goroutines of the cached Parse.                             *)
(***************************************************************************)
\* goroutine g is inside a Parse call
Running(g) == stack[g] # <<>>

\* the goroutines at a statement that reads the map, and at one that writes it
Reading == {g \in 1..CallersOf(suite) : At(g, "lookup")}

Writing == {g \in 1..CallersOf(suite) : At(g, "store")}

\* the next statement of goroutine g, if it is inside a Parse call
Step(g) ==
    \/ RLock(g)
    \/ Lookup(g)
    \/ RUnlockHit(g)
    \/ RUnlockMiss(g)
    \/ Loop(g)
    \/ Lock(g)
    \/ LockAcquire(g)
    \/ Store(g)
    \/ Unlock(g)

(***************************************************************************)
(* C30: with several goroutines in the cached Parse, the map is read only  *)
(* by holders of the read lock and written only by the holder of the write *)
(* lock, and never written while another goroutine reads or writes it; a   *)
(* goroutine holds the read lock from RLock() to the RUnlock() of the hit  *)
(* or of the miss and at no other statement, so not when it asks for the   *)
(* write lock, not in the loop that calls Parse again, and not after the   *)
(* call has returned (with a result, a cached result or an error); and as  *)
(* long as a call has not returned, some goroutine inside a call can take  *)
(* its next statement.                                                     *)
(***************************************************************************)
C30_CacheLocking ==
    suite = "lock" =>
        /\ \A g \in Reading : g \in parseCacheLock.readers
        /\ \A g \in Writing : parseCacheLock.writer = g
        /\ Writing # {} => (Reading = {} /\ Cardinality(Writing) = 1)
        /\ \A g \in 1..CallersOf(suite) :
              /\ g \in parseCacheLock.readers
                    <=> (At(g, "lookup") \/ At(g, "hit") \/ At(g, "miss"))
              /\ parseCacheLock.writer = g <=> (At(g, "store") \/ At(g, "unlock"))
              /\ g \in parseCacheLock.waiting <=> At(g, "locking")
        /\ (\E g \in 1..CallersOf(suite) : Running(g))
              => \E g \in 1..CallersOf(suite) : Running(g) /\ ENABLED Step(g)

\* goroutine 1 is on the hit path, holding the read lock, while goroutine 2
\* waits in Lock() for it
C30_Witness ==
    /\ suite = "lock"
    /\ At(1, "hit")
    /\ At(2, "locking")
    /\ parseCacheLock.readers = {1}
    /\ parseCacheLock.waiting = {2}
====
